---- MODULE Spec2Model ----
(***************************************************************************)
(* A model of the violet editor engine: the text buffer with its line      *)
(* offset index (src/src/buffer/buffer.rs), the modal key dispatch and the *)
(* edit operations (src/src/editor/editor.rs) and the cell diff of the     *)
(* renderer.                                                               *)
(*                                                                         *)
(* Text is a sequence of UTF-8 bytes.  A byte is a string: "a" (a one byte *)
(* non-blank character), " " (blank), "\n", and the three bytes "E2" "82"  *)
(* "AC" of the character U+20AC.  usize values are integers; a value that  *)
(* wrapped below zero in a build without overflow checks is kept as the    *)
(* negative number v - 2^64 and ordered above every other value.           *)
(***************************************************************************)
EXTENDS Integers, Sequences, FiniteSets, TLC

VARIABLES
    buffer,          \* Editor.buffer: [buffer_name, text, line_offsets]
    cursor,          \* Editor.cursor: [x, y]
    mode,            \* Editor.mode: "Normal", "Insert", "Command"
    command_prompt,  \* Editor.command_prompt: [command, cursor_pos, active]
    viewport_x,      \* Editor.viewport_x
    viewport_y,      \* Editor.viewport_y
    last_key,        \* Editor.last_key: <<>> is None, <<k>> is Some(k)
    motion_count,    \* Editor.motion_count: <<>> is None, <<n>> is Some(n)
    render_buffer,   \* Editor.render_buffer: [width, height, buffer]
    prev_render_buffer, \* Editor.prev_render_buffer
    writes,          \* the positioned cell writes queued by the last render
    screen,          \* the terminal: what the writes flushed so far show
    answer,          \* the last buffer query: [line, col, ret]
    panicked,        \* the process died in a panic
    should_quit,     \* main's should_quit
    files,           \* the file system: path -> [content, writable]
    overflow_checks, \* the build: TRUE panics on integer overflow, FALSE wraps
    op               \* the last operation: "new", "keypress", "char_to_byte_position",
                     \* "set_cell", "render", "adjust_viewport"

vars == <<buffer, cursor, mode, command_prompt, viewport_x, viewport_y,
          last_key, motion_count, render_buffer, prev_render_buffer, writes, screen,
          answer, panicked, should_quit, files, overflow_checks, op>>

(***************************************************************************)
(* Bounds of the model.                                                    *)
(***************************************************************************)
MaxLen == 2        \* an edit that would leave more bytes of text is not offered
MaxCount == 2      \* a digit that would make a larger repeat count is not offered
TermWidth == 2     \* width of the terminal
TermHeight == 3    \* height of the terminal
MaxCmdLen == 1     \* a key that would make a longer command line is not offered
MaxPaint == 1      \* cells a grid under construction holds that are not default
MaxChars == 3      \* characters of a text the buffer queries are tried on

(***************************************************************************)
(* Bytes and characters.                                                   *)
(***************************************************************************)
NL == "\n"
Euro == <<"E2", "82", "AC">>

\* the UTF-8 encoding of a character; a key character is a one-character string
utf8(ch) == IF ch = "U20AC" THEN Euro ELSE <<ch>>

len_utf8(ch) == Len(utf8(ch))

IsContinuation(b) == b \in {"82", "AC"}

\* str::is_char_boundary
is_char_boundary(t, i) ==
    \/ i = 0
    \/ i = Len(t)
    \/ i > 0 /\ i < Len(t) /\ ~IsContinuation(t[i + 1])

\* the character that starts at byte index i (0-based) of t
CharAt(t, i) == IF t[i + 1] = "E2" THEN "U20AC" ELSE t[i + 1]

is_whitespace(ch) == ch \in {" ", NL}

is_ascii_digit(ch) == ch \in {"0", "1", "2", "3", "4", "5", "6", "7", "8", "9"}

to_digit(ch) ==
    CASE ch = "0" -> 0 [] ch = "1" -> 1 [] ch = "2" -> 2 [] ch = "3" -> 3
      [] ch = "4" -> 4 [] ch = "5" -> 5 [] ch = "6" -> 6 [] ch = "7" -> 7
      [] ch = "8" -> 8 [] ch = "9" -> 9

\* str::char_indices: the byte indices (0-based) at which the characters start
char_indices(t) ==
    LET RECURSIVE walk(_)
        walk(i) == IF i >= Len(t) THEN <<>>
                   ELSE <<i>> \o walk(i + len_utf8(CharAt(t, i)))
    IN walk(0)

\* str::chars
chars(t) == LET ci == char_indices(t) IN [k \in 1..Len(ci) |-> CharAt(t, ci[k])]

\* the results of the fallible operations
None == [tag |-> "None"]
Some(v) == [tag |-> "Some", val |-> v]
Panic == [tag |-> "Panic"]

\* unsigned order on usize values (a negative number stands for a wrapped value)
ULess(a, b) == IF (a < 0) = (b < 0) THEN a < b ELSE b < 0

\* &text[start..end] is defined
SliceOk(t, start, end) ==
    /\ start >= 0 /\ end >= 0
    /\ start <= end /\ end <= Len(t)
    /\ is_char_boundary(t, start) /\ is_char_boundary(t, end)

\* t without the bytes start..end
RemoveRange(t, start, end) == SubSeq(t, 1, start) \o SubSeq(t, end + 1, Len(t))

\* t with the bytes bs put at byte index i
InsertAt(t, i, bs) == SubSeq(t, 1, i) \o bs \o SubSeq(t, i + 1, Len(t))

\* Vec::remove(i), i 0-based
VecRemove(v, i) == SubSeq(v, 1, i) \o SubSeq(v, i + 2, Len(v))

(***************************************************************************)
(* Buffer (src/src/buffer/buffer.rs).                                      *)
(***************************************************************************)
\* text.match_indices('\n').map(|(i, _)| i + 1)
match_indices_nl(t) ==
    LET RECURSIVE scan(_)
        scan(i) == IF i > Len(t) THEN <<>>
                   ELSE IF t[i] = NL THEN <<i>> \o scan(i + 1) ELSE scan(i + 1)
    IN scan(1)

Buffer_new(buffer_name, text) ==
    [buffer_name |-> buffer_name, text |-> text,
     line_offsets |-> <<0>> \o match_indices_nl(text)]

update_text(b, text) ==
    [b EXCEPT !.text = text, !.line_offsets = <<0>> \o match_indices_nl(text)]

line_count(b) == Len(b.line_offsets)

get_line(b, line) ==
    IF line >= Len(b.line_offsets) THEN None
    ELSE LET start == b.line_offsets[line + 1]
             last == ~(line + 1 < Len(b.line_offsets))
             \* line_offsets[line + 1] - 1 of a zero entry panics with overflow
             \* checks and otherwise wraps to an end past the text
             end == IF last THEN Len(b.text) ELSE b.line_offsets[line + 2] - 1
         IN IF ~last /\ b.line_offsets[line + 2] = 0 THEN Panic
            ELSE IF SliceOk(b.text, start, end)
                 THEN Some(SubSeq(b.text, start + 1, end))
                 ELSE Panic

\* a variant that takes the column for a byte offset into the line
char_to_byte_position_bytes(b, line, col) ==
    IF line >= Len(b.line_offsets) THEN None
    ELSE LET l == get_line(b, line)
         IN IF l.tag # "Some" THEN l
            ELSE Some(b.line_offsets[line + 1]
                        + (IF col < Len(l.val) THEN col ELSE Len(l.val)))

char_to_byte_position(b, line, col) ==
    IF line >= Len(b.line_offsets) THEN None
    ELSE LET lstart == b.line_offsets[line + 1]
             l == get_line(b, line)
         IN IF l.tag # "Some" THEN l
            ELSE LET ltext == l.val
                     ci == char_indices(ltext)
                     line_byte_pos == IF col < Len(ci) THEN ci[col + 1]
                                      ELSE Len(ltext)
                 IN Some(lstart + line_byte_pos)

(***************************************************************************)
(* String and Vec primitives with their panics.                            *)
(***************************************************************************)
\* String::insert(idx, ch) panics off a character boundary
StringInsertOk(t, idx) == idx >= 0 /\ idx <= Len(t) /\ is_char_boundary(t, idx)

\* String::remove(idx): the character at idx and the rest; panics at or past the
\* end and off a character boundary
StringRemove(t, idx) ==
    IF idx < 0 \/ idx >= Len(t) \/ ~is_char_boundary(t, idx) THEN Panic
    ELSE LET ch == CharAt(t, idx)
         IN Some([ch |-> ch, text |-> RemoveRange(t, idx, idx + len_utf8(ch))])

\* for i in from..line_count() { line_offsets[i] += delta } (delta may be
\* negative for -=); an entry that leaves the usize range panics with overflow
\* checks and wraps without
ShiftOffsets(lo, from, delta, checks) ==
    LET leaves(v) == (v >= 0 /\ v + delta < 0) \/ (v < 0 /\ v + delta >= 0)
        touched == {i \in 1..Len(lo) : i >= from + 1}
    IN IF checks /\ \E i \in touched : leaves(lo[i]) THEN Panic
       ELSE Some([i \in 1..Len(lo) |-> IF i \in touched THEN lo[i] + delta ELSE lo[i]])

\* Vec::push then sort() in the unsigned order: v is sorted apart from its new
\* last entry
PushSort(v, n) ==
    LET before == SelectSeq(v, LAMBDA a : ~ULess(n, a))
        after == SelectSeq(v, LAMBDA a : ULess(n, a))
    IN before \o <<n>> \o after

\* [].sort() of a vector in the unsigned order
RECURSIVE SortU(_)
SortU(v) == IF v = <<>> THEN <<>> ELSE PushSort(SortU(SubSeq(v, 1, Len(v) - 1)), v[Len(v)])

saturating_sub(a, b) == IF a >= b THEN a - b ELSE 0

Min(a, b) == IF a <= b THEN a ELSE b

(***************************************************************************)
(* Editor (src/src/editor/editor.rs).  An operation maps the editor e, a   *)
(* record of the fields of Editor, to the editor it leaves.                *)
(***************************************************************************)
\* the process dies in a panic
Crash(e) == [e EXCEPT !.panicked = TRUE]

insert_newline(e) ==
    LET p == char_to_byte_position(e.buffer, e.cursor.y, e.cursor.x)
        text == e.buffer.text
        byte_pos == IF p.tag = "Some" THEN p.val ELSE Len(text)
    IN IF p.tag = "Panic" \/ ~StringInsertOk(text, byte_pos) THEN Crash(e)
       ELSE [e EXCEPT !.buffer.text = InsertAt(text, byte_pos, <<NL>>),
                      !.buffer.line_offsets = SortU(Append(@, byte_pos + 1)),
                      !.cursor = [x |-> 0, y |-> @.y + 1]]

insert_char(e, ch) ==
    IF ch = NL THEN insert_newline(e)
    ELSE LET p == char_to_byte_position(e.buffer, e.cursor.y, e.cursor.x)
             text == e.buffer.text
         IN IF p.tag = "None" THEN e
            ELSE IF p.tag = "Panic" \/ ~StringInsertOk(text, p.val) THEN Crash(e)
            ELSE LET lo == ShiftOffsets(e.buffer.line_offsets, e.cursor.y + 1,
                                        len_utf8(ch), e.overflow_checks)
                 IN IF lo.tag = "Panic" THEN Crash(e)
                    ELSE [e EXCEPT !.buffer.text = InsertAt(text, p.val, utf8(ch)),
                                   !.cursor.x = @ + 1,
                                   !.buffer.line_offsets = lo.val]

delete_char_before_cursor(e) ==
    IF e.cursor.x > 0 THEN
        LET p == char_to_byte_position(e.buffer, e.cursor.y, e.cursor.x - 1)
        IN IF p.tag = "None" THEN e
           ELSE IF p.tag = "Panic" THEN Crash(e)
           ELSE LET r == StringRemove(e.buffer.text, p.val)
                IN IF r.tag = "Panic" THEN Crash(e)
                   ELSE LET lo == ShiftOffsets(e.buffer.line_offsets, e.cursor.y + 1,
                                               0 - len_utf8(r.val.ch), e.overflow_checks)
                        IN IF lo.tag = "Panic" THEN Crash(e)
                           ELSE [e EXCEPT !.buffer.text = r.val.text,
                                          !.cursor.x = @ - 1,
                                          !.buffer.line_offsets = lo.val]
    ELSE IF e.cursor.y > 0 THEN
        LET prev == get_line(e.buffer, e.cursor.y - 1)
            prev_line_len == IF prev.tag = "Some" THEN Len(prev.val) ELSE 0
            p == IF prev.tag = "Panic" THEN Panic
                 ELSE char_to_byte_position(e.buffer, e.cursor.y, 0)
        IN IF p.tag = "None" THEN e
           ELSE IF p.tag = "Panic" THEN Crash(e)
           \* byte_pos - 1 of 0 panics, or wraps to an index past the text
           ELSE LET r == StringRemove(e.buffer.text, p.val - 1)
                IN IF r.tag = "Panic" THEN Crash(e)
                   ELSE LET lo == ShiftOffsets(VecRemove(e.buffer.line_offsets, e.cursor.y),
                                               e.cursor.y, 0 - 1, e.overflow_checks)
                        IN IF lo.tag = "Panic" THEN Crash(e)
                           ELSE [e EXCEPT !.buffer.text = r.val.text,
                                          !.buffer.line_offsets = lo.val,
                                          !.cursor = [x |-> prev_line_len, y |-> @.y - 1]]
    ELSE e

\* line_offsets.iter().position(|&p| p == v): the first index holding v, or -1
Position(lo, v) ==
    IF \E i \in 1..Len(lo) : lo[i] = v
    THEN (CHOOSE i \in 1..Len(lo) : lo[i] = v /\ \A j \in 1..(i - 1) : lo[j] # v) - 1
    ELSE 0 - 1

delete_char_at_cursor(e) ==
    LET p == char_to_byte_position(e.buffer, e.cursor.y, e.cursor.x)
    IN IF p.tag = "None" THEN e
       ELSE IF p.tag = "Panic" THEN Crash(e)
       ELSE LET r == StringRemove(e.buffer.text, p.val)
            IN IF r.tag = "Panic" THEN Crash(e)
               ELSE IF r.val.ch = NL THEN
                   LET pos == Position(e.buffer.line_offsets, p.val + 1)
                   IN IF pos < 0 THEN [e EXCEPT !.buffer.text = r.val.text]
                      ELSE LET lo == ShiftOffsets(VecRemove(e.buffer.line_offsets, pos),
                                                  pos, 0 - 1, e.overflow_checks)
                           IN IF lo.tag = "Panic" THEN Crash(e)
                              ELSE [e EXCEPT !.buffer.text = r.val.text,
                                             !.buffer.line_offsets = lo.val]
               ELSE LET lo == ShiftOffsets(e.buffer.line_offsets, e.cursor.y + 1,
                                           0 - len_utf8(r.val.ch), e.overflow_checks)
                    IN IF lo.tag = "Panic" THEN Crash(e)
                       ELSE [e EXCEPT !.buffer.text = r.val.text,
                                      !.buffer.line_offsets = lo.val]

delete_current_line(e) ==
    IF line_count(e.buffer) = 0 THEN e
    ELSE LET lo == e.buffer.line_offsets
             y == e.cursor.y
         IN \* line_offsets[self.cursor.y] out of range
            IF y >= Len(lo) THEN Crash(e)
            \* line_offsets[y + 1] - 1 of 0 panics, or wraps to an end past the text
            ELSE IF y + 1 < Len(lo) /\ lo[y + 2] = 0 THEN Crash(e)
            ELSE LET line_start == lo[y + 1]
                     line_end == IF y + 1 < Len(lo) THEN lo[y + 2] - 1
                                 ELSE Len(e.buffer.text)
                 IN IF ~SliceOk(e.buffer.text, line_start, line_end) THEN Crash(e)
                    ELSE LET lo2 == VecRemove(lo, y)
                         IN [e EXCEPT
                               !.buffer.text = RemoveRange(@, line_start, line_end),
                               !.buffer.line_offsets = lo2,
                               !.cursor = [x |-> 0,
                                           y |-> IF y >= Len(lo2)
                                                 THEN saturating_sub(Len(lo2), 1)
                                                 ELSE y]]

\* l.chars().count() of line y, 0 when there is no such line
CharCount(l) == Len(char_indices(l))

clamp_cursor_x(e) ==
    LET l == get_line(e.buffer, e.cursor.y)
    IN IF l.tag = "Panic" THEN Crash(e)
       ELSE IF l.tag = "Some" /\ e.cursor.x > CharCount(l.val)
            THEN [e EXCEPT !.cursor.x = CharCount(l.val)]
            ELSE e

move_cursor_left(e) ==
    IF e.cursor.x > 0 THEN [e EXCEPT !.cursor.x = @ - 1]
    ELSE IF e.cursor.y > 0 THEN
        LET l == get_line(e.buffer, e.cursor.y - 1)
        IN IF l.tag = "Panic" THEN Crash(e)
           ELSE [e EXCEPT !.cursor = [y |-> @.y - 1,
                                      x |-> IF l.tag = "Some" THEN CharCount(l.val) ELSE 0]]
    ELSE e

move_cursor_right(e) ==
    LET l == get_line(e.buffer, e.cursor.y)
    IN IF l.tag = "Panic" THEN Crash(e)
       ELSE IF l.tag = "None" THEN e
       ELSE IF e.cursor.x < CharCount(l.val) THEN [e EXCEPT !.cursor.x = @ + 1]
       ELSE IF e.cursor.y + 1 < line_count(e.buffer)
            THEN [e EXCEPT !.cursor = [x |-> 0, y |-> @.y + 1]]
            ELSE e

move_cursor_up(e) ==
    IF e.cursor.y > 0 THEN
        LET c == clamp_cursor_x([e EXCEPT !.cursor.y = @ - 1])
        IN IF c.panicked THEN c
           ELSE IF c.cursor.y < c.viewport_y THEN [c EXCEPT !.viewport_y = c.cursor.y]
           ELSE c
    ELSE e

move_cursor_down(e) ==
    IF e.cursor.y + 1 < line_count(e.buffer) THEN
        LET c == clamp_cursor_x([e EXCEPT !.cursor.y = @ + 1])
            visible_lines == saturating_sub(e.height, 1)
        IN IF c.panicked THEN c
           ELSE IF c.cursor.y >= c.viewport_y + visible_lines
                THEN [c EXCEPT !.viewport_y = c.cursor.y - visible_lines + 1]
                ELSE c
    ELSE e

\* the number of characters a `while let Some(c) = char_iter.next()` loop counts
\* from index from (0-based) of cs before it meets a character whose
\* is_whitespace() is stop, or the end
RunLength(cs, from, stop) ==
    LET runs == {k \in 0..Len(cs) :
                    \A j \in 0..(k - 1) :
                        from + j + 1 <= Len(cs) /\ is_whitespace(cs[from + j + 1]) # stop}
    IN CHOOSE k \in runs : \A m \in runs : m <= k

\* the two skip loops of the word motions: the characters counted from column x
SkipCount(cs, x) ==
    LET n1 == RunLength(cs, x, TRUE)
    IN n1 + RunLength(cs, x + n1 + 1, FALSE)

RECURSIVE jump_cursor_word(_)
jump_cursor_word(e) ==
    LET l == get_line(e.buffer, e.cursor.y)
    IN IF l.tag = "Panic" THEN Crash(e)
       ELSE IF l.tag = "None" THEN e
       ELSE LET line_len == Len(l.val)
            IN IF e.cursor.x < line_len
               THEN [e EXCEPT !.cursor.x =
                        Min(@ + SkipCount(chars(l.val), e.cursor.x), line_len)]
               ELSE IF e.cursor.y + 1 < line_count(e.buffer)
                    THEN jump_cursor_word([e EXCEPT !.cursor = [x |-> 0, y |-> @.y + 1]])
                    ELSE e

jump_cursor_word_reverse(e) ==
    LET l == get_line(e.buffer, e.cursor.y)
    IN IF l.tag = "Panic" THEN Crash(e)
       ELSE IF l.tag = "None" THEN e
       ELSE LET line_len == Len(l.val)
                k == SkipCount(chars(l.val), e.cursor.x)
            IN IF e.cursor.x < line_len THEN
                   \* new_cursor_x -= 1 below zero panics with overflow checks;
                   \* without, the wrapped value is cut to line_len by min
                   IF k > e.cursor.x
                   THEN IF e.overflow_checks THEN Crash(e)
                        ELSE [e EXCEPT !.cursor.x = line_len]
                   ELSE [e EXCEPT !.cursor.x = Min(@ - k, line_len)]
               \* self.cursor.y - 1 of row 0 panics with overflow checks; without,
               \* the wrapped value is not below line_count
               ELSE IF e.cursor.y = 0
                    THEN IF e.overflow_checks THEN Crash(e) ELSE e
               ELSE IF e.cursor.y - 1 < line_count(e.buffer)
                    THEN jump_cursor_word([e EXCEPT !.cursor = [x |-> 0, y |-> @.y - 1]])
                    ELSE e

(***************************************************************************)
(* Keys.  KeyCode::Char(c) is the one-character string c, the other key    *)
(* codes are named.                                                        *)
(***************************************************************************)
NamedKeys == {"Esc", "Enter", "Backspace", "Delete", "Left", "Right", "Up", "Down",
              "Home", "End", "Tab"}

IsChar(k) == k \notin NamedKeys

\* one single-step motion primitive, by its Normal-mode key
MotionStep(m, e) ==
    CASE m = "j" -> move_cursor_down(e)
      [] m = "k" -> move_cursor_up(e)
      [] m = "h" -> move_cursor_left(e)
      [] m = "l" -> move_cursor_right(e)
      [] m = "w" -> jump_cursor_word(e)
      [] m = "b" -> jump_cursor_word_reverse(e)

\* a variant that steps once whatever the count
RepeatMotion_once(m, count, e) == MotionStep(m, e)

\* for _ in 0..count { step }
RECURSIVE RepeatMotion(_, _, _)
RepeatMotion(m, count, e) ==
    IF count = 0 \/ e.panicked THEN e
    ELSE RepeatMotion(m, count - 1, MotionStep(m, e))

\* a variant of activate that keeps the command and the prompt cursor
CommandPrompt_activate_keep(cp) == [cp EXCEPT !.active = TRUE]

\* CommandPrompt::activate
CommandPrompt_activate(cp) == [command |-> <<>>, cursor_pos |-> 0, active |-> TRUE]

\* a variant whose default arm leaves the count pending
normal_mode_match_keep(e, k) ==
    LET count == IF e.motion_count = <<>> THEN 1 ELSE e.motion_count[1]
        taken == [e EXCEPT !.motion_count = <<>>]
    IN IF IsChar(k) /\ is_ascii_digit(k) THEN
           \* saturating_mul and saturating_add: the counts offered stay far
           \* below usize::MAX
           [e EXCEPT !.motion_count =
               <<(IF @ = <<>> THEN 0 ELSE @[1]) * 10 + to_digit(k)>>]
       ELSE IF k \in {"j", "k", "h", "l", "w", "b"} THEN RepeatMotion(k, count, taken)
       ELSE IF k = "d" THEN [taken EXCEPT !.last_key = <<"d">>]
       ELSE IF k = "x" THEN
           LET r == delete_char_at_cursor(e)
           IN IF r.panicked THEN r ELSE [r EXCEPT !.motion_count = <<>>]
       ELSE IF k = "i" THEN [taken EXCEPT !.mode = "Insert"]
       ELSE IF k = ":" THEN
           [taken EXCEPT !.mode = "Command",
                         !.command_prompt = CommandPrompt_activate(@)]
       ELSE IF k = "0" THEN
           IF e.motion_count # <<>>
           THEN [e EXCEPT !.motion_count = <<@[1] * 10>>]
           ELSE [e EXCEPT !.cursor.x = 0]
       ELSE IF k = "$" THEN
           LET l == get_line(e.buffer, e.cursor.y)
           IN IF l.tag = "Panic" THEN Crash(e)
              ELSE IF l.tag = "Some"
                   THEN [taken EXCEPT !.cursor.x = saturating_sub(Len(l.val), 1)]
                   ELSE taken
       ELSE IF k = "g" THEN [taken EXCEPT !.cursor = [x |-> 0, y |-> 0]]
       ELSE IF k = "G" THEN
           [taken EXCEPT !.cursor = [x |-> 0,
                                     y |-> saturating_sub(line_count(e.buffer), 1)]]
       ELSE e

\* the match of handle_normal_mode, arms in source order
normal_mode_match(e, k) ==
    LET count == IF e.motion_count = <<>> THEN 1 ELSE e.motion_count[1]
        taken == [e EXCEPT !.motion_count = <<>>]
    IN IF IsChar(k) /\ is_ascii_digit(k) THEN
           \* saturating_mul and saturating_add: the counts offered stay far
           \* below usize::MAX
           [e EXCEPT !.motion_count =
               <<(IF @ = <<>> THEN 0 ELSE @[1]) * 10 + to_digit(k)>>]
       ELSE IF k \in {"j", "k", "h", "l", "w", "b"} THEN RepeatMotion(k, count, taken)
       ELSE IF k = "d" THEN [taken EXCEPT !.last_key = <<"d">>]
       ELSE IF k = "x" THEN
           LET r == delete_char_at_cursor(e)
           IN IF r.panicked THEN r ELSE [r EXCEPT !.motion_count = <<>>]
       ELSE IF k = "i" THEN [taken EXCEPT !.mode = "Insert"]
       ELSE IF k = ":" THEN
           [taken EXCEPT !.mode = "Command",
                         !.command_prompt = CommandPrompt_activate(@)]
       ELSE IF k = "0" THEN
           IF e.motion_count # <<>>
           THEN [e EXCEPT !.motion_count = <<@[1] * 10>>]
           ELSE [e EXCEPT !.cursor.x = 0]
       ELSE IF k = "$" THEN
           LET l == get_line(e.buffer, e.cursor.y)
           IN IF l.tag = "Panic" THEN Crash(e)
              ELSE IF l.tag = "Some"
                   THEN [taken EXCEPT !.cursor.x = saturating_sub(Len(l.val), 1)]
                   ELSE taken
       ELSE IF k = "g" THEN [taken EXCEPT !.cursor = [x |-> 0, y |-> 0]]
       ELSE IF k = "G" THEN
           [taken EXCEPT !.cursor = [x |-> 0,
                                     y |-> saturating_sub(line_count(e.buffer), 1)]]
       ELSE taken

\* a variant whose cancel of the d prefix consumes the key
handle_normal_mode_consume(e, k) ==
    IF e.last_key = <<"d">> THEN
        IF k = "d" THEN
            LET r == delete_current_line(e)
            IN IF r.panicked THEN r
               ELSE [r EXCEPT !.last_key = <<>>, !.motion_count = <<>>]
        ELSE [e EXCEPT !.last_key = <<>>]
    ELSE normal_mode_match(e, k)

handle_normal_mode(e, k) ==
    IF e.last_key = <<"d">> THEN
        IF k = "d" THEN
            LET r == delete_current_line(e)
            IN IF r.panicked THEN r
               ELSE [r EXCEPT !.last_key = <<>>, !.motion_count = <<>>]
        ELSE normal_mode_match([e EXCEPT !.last_key = <<>>], k)
    ELSE normal_mode_match(e, k)

handle_insert_mode(e, k) ==
    CASE k = "Esc" -> [e EXCEPT !.mode = "Normal"]
      [] IsChar(k) -> insert_char(e, k)
      [] k = "Backspace" -> delete_char_before_cursor(e)
      [] k = "Delete" -> delete_char_at_cursor(e)
      [] k = "Enter" -> insert_newline(e)
      [] k = "Left" -> move_cursor_left(e)
      [] k = "Right" -> move_cursor_right(e)
      [] k = "Up" -> move_cursor_up(e)
      [] k = "Down" -> move_cursor_down(e)
      [] OTHER -> e

(***************************************************************************)
(* CommandPrompt (src/src/command_prompt.rs).                              *)
(***************************************************************************)
CommandPrompt_new == [command |-> <<>>, cursor_pos |-> 0, active |-> FALSE]

\* CommandPrompt::handle_key: the prompt it leaves and what it returns
CommandPrompt_handle_key(cp, k) ==
    LET out(p, r) == [prompt |-> p, ret |-> r]
    IN CASE k = "Esc" -> out([cp EXCEPT !.active = FALSE], None)
         [] k = "Enter" ->
              out([command |-> <<>>, cursor_pos |-> 0, active |-> FALSE],
                  Some(cp.command))
         [] k = "Backspace" ->
              IF cp.cursor_pos > 0 THEN
                  LET r == StringRemove(cp.command, cp.cursor_pos - 1)
                  IN IF r.tag = "Panic" THEN out(cp, Panic)
                     ELSE out([cp EXCEPT !.cursor_pos = @ - 1, !.command = r.val.text],
                              None)
              ELSE out(cp, None)
         [] k = "Delete" ->
              IF cp.cursor_pos < Len(cp.command) THEN
                  LET r == StringRemove(cp.command, cp.cursor_pos)
                  IN IF r.tag = "Panic" THEN out(cp, Panic)
                     ELSE out([cp EXCEPT !.command = r.val.text], None)
              ELSE out(cp, None)
         [] k = "Left" ->
              out([cp EXCEPT !.cursor_pos = IF @ > 0 THEN @ - 1 ELSE @], None)
         [] k = "Right" ->
              out([cp EXCEPT !.cursor_pos = IF @ < Len(cp.command) THEN @ + 1 ELSE @],
                  None)
         [] k = "Home" -> out([cp EXCEPT !.cursor_pos = 0], None)
         [] k = "End" -> out([cp EXCEPT !.cursor_pos = Len(cp.command)], None)
         [] IsChar(k) ->
              IF StringInsertOk(cp.command, cp.cursor_pos)
              THEN out([cp EXCEPT !.command = InsertAt(@, cp.cursor_pos, utf8(k)),
                                  !.cursor_pos = @ + 1], None)
              ELSE out(cp, Panic)
         [] OTHER -> out(cp, None)

(***************************************************************************)
(* Commands and files.                                                     *)
(***************************************************************************)
\* str::trim
RECURSIVE trim_start(_)
trim_start(t) ==
    IF t # <<>> /\ is_whitespace(t[1]) THEN trim_start(Tail(t)) ELSE t

RECURSIVE trim_end(_)
trim_end(t) ==
    IF t # <<>> /\ is_whitespace(t[Len(t)]) THEN trim_end(SubSeq(t, 1, Len(t) - 1))
    ELSE t

trim(t) == trim_end(trim_start(t))

starts_with(t, prefix) ==
    Len(t) >= Len(prefix) /\ SubSeq(t, 1, Len(prefix)) = prefix

\* the components of a path: the parts between "/", without the empty ones and
\* without a "." that is not the leading part of a relative path
RECURSIVE SplitPath(_, _)
SplitPath(path, part) ==
    IF path = <<>> THEN <<part>>
    ELSE IF path[1] = "/" THEN <<part>> \o SplitPath(Tail(path), <<>>)
    ELSE SplitPath(Tail(path), Append(part, path[1]))

Components(path) ==
    LET parts == SplitPath(path, <<>>)
        keep(i) == parts[i] # <<>> /\ (parts[i] # <<".">> \/ i = 1)
        idx == {i \in 1..Len(parts) : keep(i)}
        RECURSIVE pick(_)
        pick(i) == IF i > Len(parts) THEN <<>>
                   ELSE IF i \in idx THEN <<parts[i]>> \o pick(i + 1) ELSE pick(i + 1)
    IN pick(1)

\* Path::new(path).file_name().unwrap_or(path): the final component when it is
\* a normal one
file_name_or(path) ==
    LET cs == Components(path)
    IN IF cs = <<>> \/ cs[Len(cs)] \in {<<".">>, <<".", ".">>} THEN path
       ELSE cs[Len(cs)]

\* read_to_string(path)
read_to_string(fs, path) ==
    IF path \in DOMAIN fs /\ fs[path].content.tag = "Some"
    THEN Some(fs[path].content.val) ELSE None

\* std::fs::write(path, text) succeeds
write_ok(fs, path) == path \in DOMAIN fs /\ fs[path].writable

open_file(fs, path) ==
    LET contents == read_to_string(fs, path)
    IN IF contents.tag = "Some"
       THEN Some(Buffer_new(file_name_or(path), contents.val))
       ELSE None

\* a variant that takes the new name whether or not the write succeeded
save_buffer_rename(e, filename) ==
    IF write_ok(e.files, filename)
    THEN [e EXCEPT !.files[filename].content = Some(e.buffer.text),
                   !.buffer.buffer_name = file_name_or(filename)]
    ELSE [e EXCEPT !.buffer.buffer_name = file_name_or(filename)]

save_buffer(e, filename) ==
    IF write_ok(e.files, filename)
    THEN [e EXCEPT !.files[filename].content = Some(e.buffer.text),
                   !.buffer.buffer_name = file_name_or(filename)]
    ELSE e

execute_command(e, cmd) ==
    LET command == trim(cmd)
    IN IF command \in {<<"w">>, <<"w", "r", "i", "t", "e">>} THEN
           IF e.buffer.buffer_name # <<>>
              /\ e.buffer.buffer_name # <<"U", "n", "t", "i", "t", "l", "e", "d">>
           THEN save_buffer(e, e.buffer.buffer_name)
           ELSE e
       ELSE IF starts_with(command, <<"w", " ">>) THEN
           LET filename == trim(SubSeq(command, 3, Len(command)))
           IN IF filename # <<>> THEN save_buffer(e, filename) ELSE e
       ELSE IF starts_with(command, <<"e", " ">>) THEN
           LET filename == trim(SubSeq(command, 3, Len(command)))
               b == open_file(e.files, filename)
           IN IF filename # <<>> /\ b.tag = "Some"
              THEN [e EXCEPT !.buffer = b.val, !.cursor = [x |-> 0, y |-> 0]]
              ELSE e
       ELSE e

\* a variant that leaves the mode alone when the prompt was cancelled
handle_command_mode_stay(e, k) ==
    LET r == CommandPrompt_handle_key(e.command_prompt, k)
        e1 == [e EXCEPT !.command_prompt = r.prompt]
    IN IF r.ret.tag = "Panic" THEN Crash(e)
       ELSE IF r.ret.tag = "Some"
               /\ r.ret.val \in {<<"q">>, <<"q", "u", "i", "t">>}
            THEN [e1 EXCEPT !.ret = TRUE]
       ELSE IF r.ret.tag = "Some"
            THEN [execute_command(e1, r.ret.val) EXCEPT !.mode = "Normal"]
            ELSE e1

handle_command_mode(e, k) ==
    LET r == CommandPrompt_handle_key(e.command_prompt, k)
        e1 == [e EXCEPT !.command_prompt = r.prompt]
    IN IF r.ret.tag = "Panic" THEN Crash(e)
       ELSE IF r.ret.tag = "Some"
               /\ r.ret.val \in {<<"q">>, <<"q", "u", "i", "t">>}
            THEN [e1 EXCEPT !.ret = TRUE]
       ELSE LET e2 == IF r.ret.tag = "Some"
                      THEN [execute_command(e1, r.ret.val) EXCEPT !.mode = "Normal"]
                      ELSE e1
            IN IF ~e2.command_prompt.active THEN [e2 EXCEPT !.mode = "Normal"] ELSE e2

handle_keypress(e, k) ==
    CASE e.mode = "Normal" -> handle_normal_mode(e, k)
      [] e.mode = "Insert" -> handle_insert_mode(e, k)
      [] e.mode = "Command" -> handle_command_mode(e, k)

(***************************************************************************)
(* RenderCell and RenderBuffer (src/src/buffer/render_cell.rs,             *)
(* src/src/buffer/render_buffer.rs) and the diff of Editor::render.        *)
(***************************************************************************)
RenderCell_default ==
    [ch |-> " ", fg |-> "Reset", bg |-> "Reset", bold |-> FALSE, italic |-> FALSE]

RenderBuffer_new(width, height) ==
    [width |-> width, height |-> height,
     buffer |-> [y \in 1..height |-> [x \in 1..width |-> RenderCell_default]]]

\* RenderBuffer::get_cell
get_cell(rb, x, y) ==
    IF y < Len(rb.buffer) /\ x < Len(rb.buffer[y + 1])
    THEN Some(rb.buffer[y + 1][x + 1]) ELSE None

\* RenderBuffer::set_cell
set_cell(rb, x, y, cell) ==
    IF y < Len(rb.buffer) /\ x < rb.width /\ x < Len(rb.buffer[y + 1])
    THEN [rb EXCEPT !.buffer[y + 1][x + 1] = cell]
    ELSE rb

\* #[derive(PartialEq)] on RenderCell, under Option: current != previous
\* a variant that compares the characters only
cell_ne_ch(current, previous) ==
    \/ current.tag # previous.tag
    \/ current.tag = "Some" /\ current.val.ch # previous.val.ch

cell_ne(current, previous) ==
    \/ current.tag # previous.tag
    \/ /\ current.tag = "Some"
       /\ \/ current.val.ch # previous.val.ch
          \/ current.val.fg # previous.val.fg
          \/ current.val.bg # previous.val.bg
          \/ current.val.bold # previous.val.bold
          \/ current.val.italic # previous.val.italic

\* the loop of render over y and x: the writes queued, in order
render_diff(cur, prev) ==
    LET RECURSIVE row(_, _)
        row(x, y) ==
            IF x >= cur.width THEN <<>>
            ELSE LET current == get_cell(cur, x, y)
                     previous == get_cell(prev, x, y)
                 IN (IF cell_ne(current, previous) /\ current.tag = "Some"
                     THEN <<[x |-> x, y |-> y, ch |-> current.val.ch,
                             fg |-> current.val.fg, bg |-> current.val.bg]>>
                     ELSE <<>>) \o row(x + 1, y)
        RECURSIVE rows(_)
        rows(y) == IF y >= cur.height THEN <<>> ELSE row(0, y) \o rows(y + 1)
    IN rows(0)

\* the terminal: a grid of what each position shows, blank at the start
Screen_new(width, height) ==
    [y \in 1..height |-> [x \in 1..width |->
        [ch |-> RenderCell_default.ch, fg |-> RenderCell_default.fg,
         bg |-> RenderCell_default.bg]]]

\* what the terminal shows once the queued writes ws are flushed: each is
\* MoveTo(x, y), SetForegroundColor, SetBackgroundColor, Print(ch)
RECURSIVE flush(_, _)
flush(scr, ws) ==
    IF ws = <<>> THEN scr
    ELSE LET w == ws[1]
         IN flush(IF w.y < Len(scr) /\ w.x < Len(scr[w.y + 1])
                  THEN [scr EXCEPT ![w.y + 1][w.x + 1] =
                                      [ch |-> w.ch, fg |-> w.fg, bg |-> w.bg]]
                  ELSE scr,
                  Tail(ws))

(***************************************************************************)
(* The editor as a record, and the state after construction.               *)
(***************************************************************************)
Str_Untitled == <<"U", "n", "t", "i", "t", "l", "e", "d">>

\* the files the editor is started on: path -> [content, writable]
File_f == <<"f">>
File_g == <<"g">>
File_missing == <<"m">>

InitFiles ==
    (File_f :> [content |-> Some(<<"a", "b", NL, "c", "d">>), writable |-> TRUE])
    @@ (File_g :> [content |-> Some(Euro \o <<NL>>), writable |-> TRUE])
    @@ (File_missing :> [content |-> None, writable |-> FALSE])

\* Editor::new(filename)
Editor_new(filename, fs, width, height) ==
    LET opened == IF filename.tag = "Some" THEN open_file(fs, filename.val) ELSE None
    IN [buffer |-> IF filename.tag = "Some"
                   THEN IF opened.tag = "Some" THEN opened.val
                        ELSE Buffer_new(filename.val, <<>>)
                   ELSE Buffer_new(Str_Untitled, <<>>),
        cursor |-> [x |-> 0, y |-> 0],
        mode |-> "Normal",
        command_prompt |-> CommandPrompt_new,
        render_buffer |-> RenderBuffer_new(width, height),
        prev_render_buffer |-> RenderBuffer_new(width, height),
        viewport_x |-> 0,
        viewport_y |-> 0,
        last_key |-> <<>>,
        motion_count |-> <<>>]

\* the editor of the current state, as the operations take it
Ed ==
    [buffer |-> buffer, cursor |-> cursor, mode |-> mode,
     command_prompt |-> command_prompt, viewport_x |-> viewport_x,
     viewport_y |-> viewport_y, last_key |-> last_key,
     motion_count |-> motion_count, height |-> render_buffer.height,
     files |-> files, overflow_checks |-> overflow_checks,
     panicked |-> panicked, ret |-> FALSE]

InitWith(filename, fs) ==
    LET e == Editor_new(filename, fs, TermWidth, TermHeight)
    IN /\ buffer = e.buffer
       /\ cursor = e.cursor
       /\ mode = e.mode
       /\ command_prompt = e.command_prompt
       /\ render_buffer = e.render_buffer
       /\ prev_render_buffer = e.prev_render_buffer
       /\ viewport_x = e.viewport_x
       /\ viewport_y = e.viewport_y
       /\ last_key = e.last_key
       /\ motion_count = e.motion_count
       /\ writes = <<>>
       /\ screen = Screen_new(TermWidth, TermHeight)
       /\ answer = [line |-> 0, col |-> 0, ret |-> None]
       /\ panicked = FALSE
       /\ should_quit = FALSE
       /\ files = fs
       /\ op = "new"

Init ==
    /\ overflow_checks \in BOOLEAN
    /\ \E filename \in {None, Some(File_g)} : InitWith(filename, InitFiles)

(***************************************************************************)
(* The keys offered.  In Insert mode every character key inserts its       *)
(* character, so three characters stand for all: "a" for the one-byte      *)
(* non-blank ones, " " and the three-byte "U20AC".                         *)
(***************************************************************************)
Digits == {"0", "1", "2", "3", "4", "5", "6", "7", "8", "9"}

NormalKeys == Digits \cup {"h", "j", "k", "l", "w", "b", "d", "x", "i", ":", "$",
                           "g", "G", "z", "Esc"}

InsertKeys == {"Esc", "a", " ", "U20AC", "Backspace", "Delete", "Enter", "Left",
               "Right", "Up", "Down", "Tab"}

CommandKeys == {"Esc", "Enter", "q", "Backspace", "Left"}

\* the bounds: a key is offered only when what it leaves stays within them.  A
\* text of MaxLen bytes has at most MaxLen + 1 lines, and its offsets, rows and
\* columns are at most MaxLen; an editor whose index went wrong can leave these
\* ranges, and is followed one step beyond them.
MaxLines == MaxLen + 1
MaxCol == MaxLen + 1
MaxRow == MaxLen + 1
MaxOffset == MaxLen + 1

WithinBounds(e, r) ==
    /\ Len(r.buffer.text) > Len(e.buffer.text) => Len(r.buffer.text) <= MaxLen
    /\ Len(r.buffer.line_offsets) > Len(e.buffer.line_offsets)
          => Len(r.buffer.line_offsets) <= MaxLines
    /\ r.cursor.x > e.cursor.x => r.cursor.x <= MaxCol
    /\ r.cursor.y > e.cursor.y => r.cursor.y <= MaxRow
    /\ r.buffer.line_offsets # e.buffer.line_offsets
          => \A i \in 1..Len(r.buffer.line_offsets) :
                r.buffer.line_offsets[i] \in (0 - 1)..MaxOffset
    /\ r.motion_count # <<>> => r.motion_count[1] <= MaxCount
    /\ Len(r.command_prompt.command) <= MaxCmdLen

\* one iteration of main's loop that reads a key: should_quit = handle_keypress(code)
Keypress(k) ==
    /\ ~panicked /\ ~should_quit
    /\ \E r \in {handle_keypress(Ed, k)} :
          /\ WithinBounds(Ed, r)
          /\ op' = "keypress"
          /\ panicked' = r.panicked
          /\ IF r.panicked
             THEN UNCHANGED <<buffer, cursor, mode, command_prompt, viewport_x,
                              viewport_y, last_key, motion_count, should_quit, files>>
             ELSE /\ buffer' = r.buffer
                  /\ cursor' = r.cursor
                  /\ mode' = r.mode
                  /\ command_prompt' = r.command_prompt
                  /\ viewport_x' = r.viewport_x
                  /\ viewport_y' = r.viewport_y
                  /\ last_key' = r.last_key
                  /\ motion_count' = r.motion_count
                  /\ should_quit' = r.ret
                  /\ files' = r.files
          /\ UNCHANGED <<render_buffer, prev_render_buffer, writes, screen, answer,
                          overflow_checks>>

NormalKey == mode = "Normal" /\ \E k \in NormalKeys : Keypress(k)

InsertKey == mode = "Insert" /\ \E k \in InsertKeys : Keypress(k)

CommandKey == mode = "Command" /\ \E k \in CommandKeys : Keypress(k)

Next == NormalKey \/ InsertKey \/ CommandKey

Spec == Init /\ [][Next]_vars

(***************************************************************************)
(* The buffer queries as pure functions: a buffer built by Buffer::new     *)
(* from any text of at most MaxChars characters, queried at any position.  *)
(***************************************************************************)
TextChars == {"a", " ", NL, "U20AC"}

RECURSIVE Encode(_)
Encode(cs) == IF cs = <<>> THEN <<>> ELSE utf8(cs[1]) \o Encode(Tail(cs))

Texts == {Encode(cs) : cs \in UNION {[1..n -> TextChars] : n \in 0..MaxChars}}

\* the editor started on a file that holds the text t
InitBuffer ==
    /\ overflow_checks = TRUE
    /\ \E t \in Texts :
           InitWith(Some(File_f), File_f :> [content |-> Some(t), writable |-> TRUE])

Locate(line, col) ==
    /\ answer' = [line |-> line, col |-> col,
                  ret |-> char_to_byte_position(buffer, line, col)]
    /\ op' = "char_to_byte_position"
    /\ UNCHANGED <<buffer, cursor, mode, command_prompt, viewport_x, viewport_y,
                   last_key, motion_count, render_buffer, prev_render_buffer, writes,
                   screen, panicked, should_quit, files, overflow_checks>>

NextBuffer == \E line \in 0..(MaxChars + 1), col \in 0..(MaxChars + 1) : Locate(line, col)

SpecBuffer == InitBuffer /\ [][NextBuffer]_vars

(***************************************************************************)
(* The diff of render as a pure function of two grids: the grid under      *)
(* construction is painted cell by cell, then diffed against the previous  *)
(* one and swapped with it.                                                *)
(***************************************************************************)
PaintCells ==
    {RenderCell_default,
     [RenderCell_default EXCEPT !.ch = "a"],
     [RenderCell_default EXCEPT !.bg = "White", !.fg = "Black"]}

\* the cells of rb that are not the default cell
Painted(rb) ==
    {c \in (0..(rb.width - 1)) \X (0..(rb.height - 1)) :
        rb.buffer[c[2] + 1][c[1] + 1] # RenderCell_default}

InitDiff ==
    /\ overflow_checks = TRUE
    /\ InitWith(None, InitFiles)

\* RenderBuffer::set_cell on the grid under construction, also out of range
SetCell(x, y, cell) ==
    /\ render_buffer' = set_cell(render_buffer, x, y, cell)
    /\ Cardinality(Painted(render_buffer')) <= MaxPaint
    /\ op' = "set_cell"
    \* render flushed the queue when it returned
    /\ writes' = <<>>
    /\ UNCHANGED <<buffer, cursor, mode, command_prompt, viewport_x, viewport_y,
                   last_key, motion_count, prev_render_buffer, screen, answer,
                   panicked, should_quit, files, overflow_checks>>

\* the diff loop of render and the swap of the two grids
DiffAndSwap ==
    /\ writes' = render_diff(render_buffer, prev_render_buffer)
    \* out.flush()
    /\ screen' = flush(screen, writes')
    /\ render_buffer' = prev_render_buffer
    /\ prev_render_buffer' = render_buffer
    /\ op' = "render"
    /\ UNCHANGED <<buffer, cursor, mode, command_prompt, viewport_x, viewport_y,
                   last_key, motion_count, answer, panicked, should_quit, files,
                   overflow_checks>>

NextDiff ==
    \/ \E x \in 0..TermWidth, y \in 0..TermHeight, cell \in PaintCells : SetCell(x, y, cell)
    \/ DiffAndSwap

SpecDiff == InitDiff /\ [][NextDiff]_vars

(***************************************************************************)
(* The start of prepare_render_buffer: the grids take the size of the      *)
(* terminal, the grid to build is cleared and the viewport follows the     *)
(* cursor.                                                                 *)
(***************************************************************************)
\* n.to_string().len()
RECURSIVE DecimalLen(_)
DecimalLen(n) == IF n < 10 THEN 1 ELSE 1 + DecimalLen(n \div 10)

\* RenderBuffer::resize: the cells kept are those at coordinates of both sizes
resize(rb, width, height) ==
    IF rb.width = width /\ rb.height = height THEN rb
    ELSE [width |-> width, height |-> height,
          buffer |-> [y \in 1..height |-> [x \in 1..width |->
                        IF y <= Len(rb.buffer) /\ x <= Len(rb.buffer[y])
                        THEN rb.buffer[y][x] ELSE RenderCell_default]]]

\* the rows and columns of the buffer the terminal shows
visible_lines(term_height) == saturating_sub(term_height, 2)

visible_cols(b, term_width) ==
    saturating_sub(term_width, DecimalLen(line_count(b)) + 2)

\* a variant that puts the cursor on the first visible row and column whenever
\* it has to move the viewport
adjust_viewport_top(e, term_width, term_height) ==
    LET rows == visible_lines(term_height)
        cols == visible_cols(e.buffer, term_width)
    IN [e EXCEPT
          !.viewport_y = IF e.cursor.y < @ \/ e.cursor.y >= @ + rows
                         THEN e.cursor.y ELSE @,
          !.viewport_x = IF e.cursor.x < @ \/ e.cursor.x >= @ + cols
                         THEN e.cursor.x ELSE @]

\* "Adjust viewport to keep cursor visible"
adjust_viewport(e, term_width, term_height) ==
    LET rows == visible_lines(term_height)
        cols == visible_cols(e.buffer, term_width)
    IN [e EXCEPT
          !.viewport_y = IF e.cursor.y < @ THEN e.cursor.y
                         ELSE IF e.cursor.y >= @ + rows THEN e.cursor.y - rows + 1
                         ELSE @,
          !.viewport_x = IF e.cursor.x < @ THEN e.cursor.x
                         ELSE IF e.cursor.x >= @ + cols THEN e.cursor.x - cols + 1
                         ELSE @]

\* the terminal sizes terminal::size() reports: one or two visible rows, one
\* or two visible columns beside a gutter of one digit
Widths == (TermWidth + 2)..(TermWidth + 3)
Heights == TermHeight..(TermHeight + 1)

\* prepare_render_buffer up to the viewport adjustment, on a terminal of the
\* given size
AdjustViewport(term_width, term_height) ==
    /\ ~panicked /\ ~should_quit
    /\ \E r \in {adjust_viewport(Ed, term_width, term_height)} :
          /\ viewport_x' = r.viewport_x
          /\ viewport_y' = r.viewport_y
    /\ render_buffer' = RenderBuffer_new(term_width, term_height)
    /\ prev_render_buffer' = resize(prev_render_buffer, term_width, term_height)
    /\ op' = "adjust_viewport"
    /\ UNCHANGED <<buffer, cursor, mode, command_prompt, last_key, motion_count,
                   writes, screen, answer, panicked, should_quit, files,
                   overflow_checks>>

\* the keys that move the cursor or change the number of lines
ViewKeys == {"h", "j", "k", "l", "w", "b", "$", "g", "G", "i", "Esc", "a", "Enter",
             "Backspace"}

ViewKey == \E k \in ViewKeys : Keypress(k)

NextView ==
    \/ ViewKey
    \/ \E term_width \in Widths, term_height \in Heights :
          AdjustViewport(term_width, term_height)

SpecView == Init /\ [][NextView]_vars

(***************************************************************************)
(* The build of the grid (prepare_render_buffer) and render.  Every stage  *)
(* of the build is the sequence of its set_cell calls, in source order.    *)
(***************************************************************************)
DigitChars == <<"0", "1", "2", "3", "4", "5", "6", "7", "8", "9">>

\* n.to_string(), as characters
RECURSIVE to_string(_)
to_string(n) ==
    IF n < 10 THEN <<DigitChars[n + 1]>>
    ELSE to_string(n \div 10) \o <<DigitChars[(n % 10) + 1]>>

\* a string literal, as characters
Str_NORMAL == <<"N", "O", "R", "M", "A", "L">>
Str_INSERT == <<"I", "N", "S", "E", "R", "T">>
Str_COMMAND == <<"C", "O", "M", "M", "A", "N", "D">>
Str_Bar == <<" ", "|", " ">>
Str_Line == <<"L", "i", "n", "e", ":", " ">>
Str_Col == <<" ", "C", "o", "l", ":", " ">>

\* RenderCell::default() with ch, fg and bg assigned
Cell(ch, fg, bg) == [RenderCell_default EXCEPT !.ch = ch, !.fg = fg, !.bg = bg]

\* one call self.render_buffer.set_cell(x, y, cell)
Draw(x, y, cell) == [x |-> x, y |-> y, cell |-> cell]

\* the calls ds made in turn on the grid rb
RECURSIVE paint(_, _)
paint(rb, ds) ==
    IF ds = <<>> THEN rb
    ELSE paint(set_cell(rb, ds[1].x, ds[1].y, ds[1].cell), Tail(ds))

\* "Clear the current render buffer"
clear(rb) ==
    paint(rb, [i \in 1..(rb.height * rb.width) |->
                  Draw((i - 1) % rb.width, (i - 1) \div rb.width, RenderCell_default)])

\* the colours of the buffer cursor, of the cursor at the line end and of the
\* status bar, by mode
cursor_bg(m) ==
    CASE m = "Normal" -> "White" [] m = "Insert" -> "Red" [] m = "Command" -> "Yellow"

eol_cursor_bg(m) ==
    CASE m = "Normal" -> "White" [] m = "Insert" -> "Green" [] m = "Command" -> "White"

status_bg(m) ==
    CASE m = "Normal" -> "Green" [] m = "Command" -> "Yellow" [] m = "Insert" -> "Red"

\* one iteration of "Render text content": line numbers, separator, the
\* visible part of the line, and the cursor at the end of the line
line_cells(e, width, render_y, buffer_y, line, line_number_width, cols) ==
    LET is_active == buffer_y = e.cursor.y
        line_number == to_string(buffer_y + 1)
        padding == line_number_width - Len(line_number)
        gutter == [i \in 1..line_number_width |->
                     Draw(i - 1, render_y,
                          Cell(IF i - 1 >= padding THEN line_number[i - padding] ELSE " ",
                               IF is_active THEN "Yellow" ELSE "DarkGrey", "Reset"))]
        separator == <<Draw(line_number_width, render_y,
                            Cell("U2502", "DarkGrey", "Reset"))>>
        cs == chars(line)
        \* .skip(viewport_x).take(visible_cols)
        taken == Min(cols, saturating_sub(Len(cs), e.viewport_x))
        \* `if render_x >= width { break }`: the cells from there on are not drawn
        shown == Min(taken, saturating_sub(width, line_number_width + 1))
        text == [i \in 1..shown |->
                   Draw(line_number_width + 1 + (i - 1), render_y,
                        IF is_active /\ e.viewport_x + (i - 1) = e.cursor.x
                        THEN Cell(cs[e.viewport_x + i], "Black", cursor_bg(e.mode))
                        ELSE Cell(cs[e.viewport_x + i], "Reset", "Reset"))]
        render_x == line_number_width + 1 + saturating_sub(e.cursor.x, e.viewport_x)
        eol == IF is_active /\ e.cursor.x = Len(line) /\ render_x < width
               THEN <<Draw(render_x, render_y, Cell(" ", "Black", eol_cursor_bg(e.mode)))>>
               ELSE <<>>
    IN gutter \o separator \o text \o eol

\* "Render text content (only visible portion)": the loop over render_y
RECURSIVE text_cells(_, _, _, _, _, _)
text_cells(e, width, rows, render_y, line_number_width, cols) ==
    LET buffer_y == e.viewport_y + render_y
    IN IF render_y >= rows \/ buffer_y >= line_count(e.buffer) THEN Some(<<>>)
       ELSE LET l == get_line(e.buffer, buffer_y)
                rest == text_cells(e, width, rows, render_y + 1, line_number_width, cols)
            IN IF l.tag = "Panic" \/ rest.tag = "Panic" THEN Panic
               ELSE Some(line_cells(e, width, render_y, buffer_y,
                                    IF l.tag = "Some" THEN l.val ELSE <<>>,
                                    line_number_width, cols) \o rest.val)

\* format!("{} | {} | Line: {}/{} Col: {}/{} ", ...)
status_text(e) ==
    LET l == get_line(e.buffer, e.cursor.y)
        mode_str == CASE e.mode = "Normal" -> Str_NORMAL
                      [] e.mode = "Insert" -> Str_INSERT
                      [] e.mode = "Command" -> Str_COMMAND
    IN IF l.tag = "Panic" THEN Panic
       ELSE Some(mode_str \o Str_Bar \o chars(e.buffer.buffer_name) \o Str_Bar
                 \o Str_Line \o to_string(e.cursor.y + 1) \o <<"/">>
                 \o to_string(line_count(e.buffer))
                 \o Str_Col \o to_string(e.cursor.x + 1) \o <<"/">>
                 \o to_string(IF l.tag = "Some" THEN Len(l.val) ELSE 0) \o <<" ">>)

\* "Render status bar"
status_cells(e, width, term_height) ==
    LET status == status_text(e)
    IN IF status.tag = "Panic" THEN Panic
       \* term_height as usize - 2 below zero panics with overflow checks;
       \* without, the wrapped row is outside the grid
       ELSE IF term_height < 2 THEN IF e.overflow_checks THEN Panic ELSE Some(<<>>)
       ELSE Some([i \in 1..Min(Len(status.val), width) |->
                     Draw(i - 1, term_height - 2,
                          Cell(status.val[i], "White", status_bg(e.mode)))])

\* a variant of the overlay that draws the prompt text and the prompt cursor
\* without the background of the row
prompt_cells_text_only(e, width) ==
    IF ~e.command_prompt.active THEN <<>>
    ELSE LET prompt_text == <<"~", " ">> \o e.command_prompt.command
             prompt_x == saturating_sub(width, Len(prompt_text)) \div 2
             cs == chars(prompt_text)
             text == [i \in 1..Len(cs) |->
                        Draw(prompt_x + (i - 1), 0, Cell(cs[i], "Black", "DarkBlue"))]
             cursor_x == prompt_x + 2 + e.command_prompt.cursor_pos
         IN text \o <<Draw(cursor_x, 0, Cell(" ", "Black", "White"))>>

\* "Render command prompt if active": background, text, cursor; set_cell
\* leaves out what falls outside the grid
prompt_cells(e, width) ==
    IF ~e.command_prompt.active THEN <<>>
    ELSE LET prompt_text == <<"~", " ">> \o e.command_prompt.command
             prompt_x == saturating_sub(width, Len(prompt_text)) \div 2
             background == [i \in 1..width |->
                              Draw(i - 1, 0, Cell(" ", "Reset", "DarkBlue"))]
             cs == chars(prompt_text)
             text == [i \in 1..Len(cs) |->
                        Draw(prompt_x + (i - 1), 0, Cell(cs[i], "Black", "DarkBlue"))]
             cursor_x == prompt_x + 2 + e.command_prompt.cursor_pos
         IN background \o text \o <<Draw(cursor_x, 0, Cell(" ", "Black", "White"))>>

\* Editor::prepare_render_buffer on the two grids cur and prev
prepare_render_buffer(e, cur, prev, term_width, term_height) ==
    LET v == adjust_viewport(e, term_width, term_height)
        line_number_width == DecimalLen(line_count(e.buffer))
        t == text_cells(v, term_width, visible_lines(term_height), 0,
                        line_number_width, visible_cols(e.buffer, term_width))
        s == status_cells(v, term_width, term_height)
    IN IF t.tag = "Panic" \/ s.tag = "Panic" THEN [panicked |-> TRUE]
       ELSE [panicked |-> FALSE,
             render_buffer |-> paint(clear(resize(cur, term_width, term_height)),
                                     t.val \o s.val \o prompt_cells(v, term_width)),
             prev_render_buffer |-> resize(prev, term_width, term_height),
             viewport_x |-> v.viewport_x,
             viewport_y |-> v.viewport_y]

\* a variant of the swap that leaves each grid where it is
swap_none(a, b) == <<a, b>>

\* std::mem::swap(&mut a, &mut b): the pair after the swap
swap(a, b) == <<b, a>>

\* the fixed size of the terminal
RenderWidth == TermWidth + 2
RenderHeight == TermHeight

\* Editor::render: build, diff, swap, flush.  Moving the terminal's own cursor
\* changes no cell.
Render ==
    /\ ~panicked /\ ~should_quit
    /\ op' = "render"
    /\ \E r \in {prepare_render_buffer(Ed, render_buffer, prev_render_buffer,
                                       RenderWidth, RenderHeight)} :
          /\ panicked' = r.panicked
          /\ IF r.panicked
             THEN UNCHANGED <<viewport_x, viewport_y, render_buffer,
                              prev_render_buffer, writes, screen>>
             ELSE /\ viewport_x' = r.viewport_x
                  /\ viewport_y' = r.viewport_y
                  /\ writes' = render_diff(r.render_buffer, r.prev_render_buffer)
                  /\ screen' = flush(screen, writes')
                  /\ \E s \in {swap(r.render_buffer, r.prev_render_buffer)} :
                        render_buffer' = s[1] /\ prev_render_buffer' = s[2]
    /\ UNCHANGED <<buffer, cursor, mode, command_prompt, last_key, motion_count,
                   answer, should_quit, files, overflow_checks>>

\* the keys pressed between renders
RenderKeys == {"i", "a", "Enter", "Esc", "h", ":"}

\* main's loop renders, then reads at most one key
RenderKey == op = "render" /\ \E k \in RenderKeys : Keypress(k)

InitRender ==
    /\ overflow_checks \in BOOLEAN
    /\ \E filename \in {None, Some(File_g)} :
          \E e \in {Editor_new(filename, InitFiles, RenderWidth, RenderHeight)} :
             /\ buffer = e.buffer
             /\ cursor = e.cursor
             /\ mode = e.mode
             /\ command_prompt = e.command_prompt
             /\ render_buffer = e.render_buffer
             /\ prev_render_buffer = e.prev_render_buffer
             /\ viewport_x = e.viewport_x
             /\ viewport_y = e.viewport_y
             /\ last_key = e.last_key
             /\ motion_count = e.motion_count
             /\ writes = <<>>
             /\ screen = Screen_new(RenderWidth, RenderHeight)
             /\ answer = [line |-> 0, col |-> 0, ret |-> None]
             /\ panicked = FALSE
             /\ should_quit = FALSE
             /\ files = InitFiles
             /\ op = "new"

NextRender == RenderKey \/ Render

SpecRender == InitRender /\ [][NextRender]_vars

(***************************************************************************)
(* The command line: the editor started on no file, on a file with an      *)
(* empty name, on a readable file and on an unreadable one, a little text  *)
(* typed, and command lines typed at the prompt and confirmed.             *)
(***************************************************************************)
Dir_f == <<"d", "/", "f">>

\* the files of this specification: those of InitFiles, and a path in a
\* directory that can be written and holds no file yet
CmdFiles == InitFiles @@ (Dir_f :> [content |-> None, writable |-> TRUE])

\* the filename argument the editor is started with
CmdArgs == {None, Some(<<>>), Some(File_g), Some(File_missing)}

\* the command lines typed
CommandLines ==
    {<<"w">>, <<"w", "r", "i", "t", "e">>, <<"w", " ">> \o File_f,
     <<"w", " ">> \o Dir_f, <<"w", " ">> \o File_missing,
     <<"e", " ">> \o File_f, <<"e", " ">> \o File_missing,
     <<"q">>, <<" ", "q">>, <<"q", " ">>, <<"q", "u", "i", "t">>, <<"z">>}

IsPrefix(s, t) == Len(s) <= Len(t) /\ SubSeq(t, 1, Len(s)) = s

CmdChars == {"w", "r", "i", "t", "e", " ", "f", "d", "/", "m", "q", "u", "z"}

CmdNormalKeys == {":", "i"}

CmdInsertKeys == {"a", "Esc"}

CmdPromptKeys == CmdChars \cup {"Enter", "Esc", "Backspace"}

InitCmd ==
    /\ overflow_checks \in BOOLEAN
    /\ \E filename \in CmdArgs : InitWith(filename, CmdFiles)

\* one iteration of main's loop that reads a key, the prompt holding the
\* beginning of one of the command lines
CmdKeypress(k) ==
    /\ ~panicked /\ ~should_quit
    /\ \E r \in {handle_keypress(Ed, k)} :
          /\ Len(r.buffer.text) > Len(buffer.text) => Len(r.buffer.text) <= MaxLen
          /\ \E c \in CommandLines : IsPrefix(r.command_prompt.command, c)
          /\ op' = "keypress"
          /\ panicked' = r.panicked
          /\ IF r.panicked
             THEN UNCHANGED <<buffer, cursor, mode, command_prompt, viewport_x,
                              viewport_y, last_key, motion_count, should_quit, files>>
             ELSE /\ buffer' = r.buffer
                  /\ cursor' = r.cursor
                  /\ mode' = r.mode
                  /\ command_prompt' = r.command_prompt
                  /\ viewport_x' = r.viewport_x
                  /\ viewport_y' = r.viewport_y
                  /\ last_key' = r.last_key
                  /\ motion_count' = r.motion_count
                  /\ should_quit' = r.ret
                  /\ files' = r.files
          /\ UNCHANGED <<render_buffer, prev_render_buffer, writes, screen, answer,
                          overflow_checks>>

CmdNormalKey == mode = "Normal" /\ \E k \in CmdNormalKeys : CmdKeypress(k)

CmdInsertKey == mode = "Insert" /\ \E k \in CmdInsertKeys : CmdKeypress(k)

CmdPromptKey == mode = "Command" /\ \E k \in CmdPromptKeys : CmdKeypress(k)

NextCmd == CmdNormalKey \/ CmdInsertKey \/ CmdPromptKey

SpecCmd == InitCmd /\ [][NextCmd]_vars

(***************************************************************************)
(* Reference notions the properties are stated with, computed from the     *)
(* text alone.                                                             *)
(***************************************************************************)
\* the number of '\n' in t
CountNL(t) == Cardinality({i \in 1..Len(t) : t[i] = NL})

\* the byte offsets at which the lines of t start
LineStarts(t) == {0} \cup {i \in 1..Len(t) : t[i] = NL}

\* lo is the line index a full scan of t builds
IndexConsistent(t, lo) ==
    /\ lo # <<>> /\ lo[1] = 0
    /\ \A i \in 1..(Len(lo) - 1) : lo[i] < lo[i + 1]
    /\ {lo[i] : i \in 1..Len(lo)} = LineStarts(t)

\* the lines of t: the parts between the '\n'
RECURSIVE RefLines(_, _)
RefLines(t, part) ==
    IF t = <<>> THEN <<part>>
    ELSE IF t[1] = NL THEN <<part>> \o RefLines(Tail(t), <<>>)
    ELSE RefLines(Tail(t), Append(part, t[1]))

\* the characters of the bytes l, decoded from the front
RECURSIVE RefChars(_)
RefChars(l) ==
    IF l = <<>> THEN <<>>
    ELSE IF l[1] = "E2" THEN <<"U20AC">> \o RefChars(SubSeq(l, 4, Len(l)))
    ELSE <<l[1]>> \o RefChars(Tail(l))

\* the bytes the first n characters of cs take
RECURSIVE RefByteLen(_, _)
RefByteLen(cs, n) ==
    IF n = 0 \/ cs = <<>> THEN 0
    ELSE (IF cs[1] = "U20AC" THEN 3 ELSE 1) + RefByteLen(Tail(cs), n - 1)

\* the byte offset at which line i (0-based) of the lines ls starts
RECURSIVE RefLineStart(_, _)
RefLineStart(ls, i) ==
    IF i = 0 THEN 0 ELSE RefLineStart(ls, i - 1) + Len(ls[i]) + 1

\* the byte offsets of t that are character boundaries
RefBoundaries(t) == {RefByteLen(RefChars(t), n) : n \in 0..Len(t)}

\* two outcomes of the editor are the same: both died, or both left the same editor
SameOutcome(a, b) == (a.panicked /\ b.panicked) \/ (~a.panicked /\ ~b.panicked /\ a = b)

\* the key k pressed on the editor e, a dead process taking no key
Press(k, e) == IF e.panicked \/ e.ret THEN e ELSE handle_keypress(e, k)

\* the keys ks pressed in turn
RECURSIVE PressAll(_, _)
PressAll(ks, e) == IF ks = <<>> THEN e ELSE PressAll(Tail(ks), Press(ks[1], e))

\* the editor is alive and waits for a key
Running == ~panicked /\ ~should_quit

(***************************************************************************)
(* C1.  In every state reached by keypresses from a buffer built by        *)
(* Buffer::new, line_offsets has 1 + (number of '\n' in text) entries.     *)
(***************************************************************************)
C1_OffsetsCountNewlines == Len(buffer.line_offsets) = 1 + CountNL(buffer.text)

(***************************************************************************)
(* C2.  After every edit the patched line_offsets is the index a full      *)
(* rescan of text builds: it starts at 0, is strictly increasing and       *)
(* holds exactly the offsets of the first bytes of the lines.              *)
(***************************************************************************)
C2_IndexEqualsRescan ==
    /\ IndexConsistent(buffer.text, buffer.line_offsets)
    /\ buffer.line_offsets = Buffer_new(buffer.buffer_name, buffer.text).line_offsets

(***************************************************************************)
(* C3.  get_line(i) never panics, for i in range or not: the slice bounds  *)
(* it takes from line_offsets satisfy start <= end <= len(text) and it     *)
(* returns a line or an absent result.                                     *)
(***************************************************************************)
C3_GetLineNeverPanics ==
    LET lo == buffer.line_offsets
    IN \A i \in 0..(Len(lo) + 1) :
          /\ get_line(buffer, i).tag \in {"Some", "None"}
          /\ i < Len(lo) =>
                LET start == lo[i + 1]
                    end == IF i + 1 < Len(lo) THEN lo[i + 2] - 1 ELSE Len(buffer.text)
                IN 0 <= start /\ start <= end /\ end <= Len(buffer.text)

(***************************************************************************)
(* C4.  For a buffer with a consistent line index,                         *)
(* char_to_byte_position(row, col) is absent when row >= line_count, and   *)
(* otherwise is the offset of the line's start plus the bytes of the       *)
(* first min(col, chars in the line) characters of the line; that offset   *)
(* is a character boundary of the text.                                    *)
(***************************************************************************)
C4_CharToBytePosition ==
    (op = "char_to_byte_position" /\ IndexConsistent(buffer.text, buffer.line_offsets)) =>
        LET ls == RefLines(buffer.text, <<>>)
        IN IF answer.line >= line_count(buffer)
           THEN answer.ret.tag = "None"
           ELSE LET cs == RefChars(ls[answer.line + 1])
                    n == IF answer.col < Len(cs) THEN answer.col ELSE Len(cs)
                IN /\ answer.ret.tag = "Some"
                   /\ answer.ret.val = RefLineStart(ls, answer.line) + RefByteLen(cs, n)
                   /\ answer.ret.val \in RefBoundaries(buffer.text)

\* a column past a three-byte character was located on a line that is not the first
C4_Witness ==
    /\ op = "char_to_byte_position"
    /\ buffer.text = <<NL>> \o Euro \o <<"a">>
    /\ answer.line = 1 /\ answer.col = 1
    /\ answer.ret = Some(4)

(***************************************************************************)
(* C5.  In Insert mode on a one-line or many-line buffer, inserting a      *)
(* character other than '\n' and then pressing Backspace restores text,    *)
(* line_offsets and cursor exactly.                                        *)
(***************************************************************************)
C5_InsertBackspaceIdentity ==
    (mode = "Insert" /\ Running) =>
        \A c \in {"a", " ", "U20AC"} :
            LET r == PressAll(<<c, "Backspace">>, Ed)
            IN /\ ~r.panicked
               /\ r.buffer.text = buffer.text
               /\ r.buffer.line_offsets = buffer.line_offsets
               /\ r.cursor = cursor

\* the keys that are motions taking a count
Motions == {"h", "j", "k", "l", "w", "b"}

\* the decimal digits of n < 100, as keys
DigitKeys(n) ==
    LET d(i) == <<"0", "1", "2", "3", "4", "5", "6", "7", "8", "9">>[i + 1]
    IN IF n < 10 THEN <<d(n)>> ELSE <<d(n \div 10), d(n % 10)>>

\* the counts typed: the one-digit counts up to MaxCount, and a two-digit one
CountsTyped == (1..MaxCount) \cup {10}

(***************************************************************************)
(* C6.  In Normal mode with no count pending, typing the digits of a       *)
(* count N >= 1 and then a motion M of h, j, k, l, w, b leaves the editor  *)
(* as pressing M N times with no count does, and no count stays pending;   *)
(* with no count M is applied once.                                        *)
(***************************************************************************)
C6_CountRepeatsMotion ==
    (mode = "Normal" /\ Running /\ motion_count = <<>>) =>
        \A M \in Motions :
            /\ SameOutcome(Press(M, Ed), MotionStep(M, [Ed EXCEPT !.last_key = <<>>]))
            /\ \A N \in CountsTyped :
                  LET counted == PressAll(DigitKeys(N) \o <<M>>, Ed)
                      pressed == PressAll([i \in 1..N |-> M], Ed)
                  IN /\ SameOutcome(counted, pressed)
                     /\ ~counted.panicked => counted.motion_count = <<>>

\* the count 2 is pending on a line of two characters, and l moves two columns
C6_Witness ==
    /\ mode = "Normal" /\ Running /\ motion_count = <<2>>
    /\ cursor.x = 0
    /\ Press("l", Ed).cursor.x = 2
    /\ Press("l", Ed).motion_count = <<>>

\* the buffer b has k lines, by its index and by its text
HasLines(b, k) == line_count(b) = k /\ 1 + CountNL(b.text) = k

(***************************************************************************)
(* C7.  With d pending in Normal mode on a buffer of K lines, the second d *)
(* leaves K-1 lines and the cursor at column 0 when K > 1, and exactly one *)
(* line, which is empty, when K = 1.                                       *)
(***************************************************************************)
C7_DdLineCount ==
    (mode = "Normal" /\ Running /\ last_key = <<"d">>) =>
        \A K \in 1..(MaxLines + 1) :
            HasLines(buffer, K) =>
                LET r == Press("d", Ed)
                IN /\ ~r.panicked
                   /\ K > 1 => HasLines(r.buffer, K - 1) /\ r.cursor.x = 0
                   /\ K = 1 => HasLines(r.buffer, 1) /\ r.buffer.text = <<>>

(***************************************************************************)
(* C8.  dd at row r removes the bytes of line r with its line terminator   *)
(* from text, removes the offset entry of line r, and lowers every later   *)
(* offset by the number of bytes removed.                                  *)
(***************************************************************************)
C8_DdRemovesLineAndShifts ==
    (mode = "Normal" /\ Running /\ last_key = <<"d">>
        /\ IndexConsistent(buffer.text, buffer.line_offsets)
        /\ cursor.y < line_count(buffer)) =>
        LET lo == buffer.line_offsets
            text == buffer.text
            row == cursor.y + 1
            first == lo[row]
            past == IF row < Len(lo) THEN lo[row + 1] ELSE Len(text)
            removed == past - first
            r == Press("d", Ed)
        IN /\ ~r.panicked
           /\ r.buffer.text = SubSeq(text, 1, first) \o SubSeq(text, past + 1, Len(text))
           /\ Len(r.buffer.line_offsets) = Len(lo) - 1
           /\ \A i \in 1..(Len(lo) - 1) :
                 r.buffer.line_offsets[i] = IF i < row THEN lo[i] ELSE lo[i + 1] - removed

(***************************************************************************)
(* C9.  In Insert mode at cursor (r, col), a character c other than '\n'   *)
(* is inserted into text at char_to_byte_position(r, col); the cursor      *)
(* column grows by one, the offsets of lines 0..r keep their values and    *)
(* the offset of every later line grows by the UTF-8 length of c.          *)
(***************************************************************************)
C9_InsertCharEffect ==
    (mode = "Insert" /\ Running) =>
        \A c \in {"a", " ", "U20AC"} :
            LET lo == buffer.line_offsets
                p == char_to_byte_position(buffer, cursor.y, cursor.x)
                r == Press(c, Ed)
            IN /\ ~r.panicked
               /\ p.tag = "Some"
               /\ r.buffer.text = SubSeq(buffer.text, 1, p.val) \o utf8(c)
                                     \o SubSeq(buffer.text, p.val + 1, Len(buffer.text))
               /\ r.cursor = [x |-> cursor.x + 1, y |-> cursor.y]
               /\ Len(r.buffer.line_offsets) = Len(lo)
               /\ \A i \in 1..Len(lo) :
                     r.buffer.line_offsets[i] =
                        IF i <= cursor.y + 1 THEN lo[i] ELSE lo[i] + Len(utf8(c))

\* the coordinates of the grid rb
Coordinates(rb) == (0..(rb.width - 1)) \X (0..(rb.height - 1))

\* the cell of the grid rb at the coordinate xy
CellAt(rb, xy) == rb.buffer[xy[2] + 1][xy[1] + 1]

\* the coordinates the writes ws go to
Written(ws) == {<<ws[i].x, ws[i].y>> : i \in 1..Len(ws)}

(***************************************************************************)
(* C10.  The diff of a render writes a cell at (x, y) if and only if the   *)
(* built grid and the previous grid differ at (x, y), and writes the built *)
(* grid's cell there; grids with identical content give no write, and a    *)
(* diff against an all-default grid writes exactly the cells that are not  *)
(* the default cell.                                                       *)
(***************************************************************************)
C10_DiffWritesChangedCells ==
    op = "render" =>
        LET built == prev_render_buffer
            previous == render_buffer
        IN /\ Written(writes) =
                 {xy \in Coordinates(built) : CellAt(built, xy) # CellAt(previous, xy)}
           /\ Cardinality(Written(writes)) = Len(writes)
           /\ \A i \in 1..Len(writes) :
                 LET cell == CellAt(built, <<writes[i].x, writes[i].y>>)
                 IN writes[i].ch = cell.ch /\ writes[i].fg = cell.fg /\ writes[i].bg = cell.bg
           /\ built.buffer = previous.buffer => writes = <<>>
           /\ (\A xy \in Coordinates(previous) : CellAt(previous, xy) = RenderCell_default) =>
                 Written(writes) =
                    {xy \in Coordinates(built) : CellAt(built, xy) # RenderCell_default}

\* a render over a grid whose cell at (1, 0) differed only in its colours from
\* the previous one wrote that cell and no other
C10_Witness ==
    /\ op = "render"
    /\ Len(writes) = 1
    /\ writes[1].x = 1 /\ writes[1].y = 0
    /\ CellAt(prev_render_buffer, <<1, 0>>).ch = CellAt(render_buffer, <<1, 0>>).ch
    /\ CellAt(prev_render_buffer, <<1, 0>>) # CellAt(render_buffer, <<1, 0>>)


\* the keys pressed on a state to see what each does
KeysTried == NormalKeys \cup InsertKeys \cup CommandKeys \cup {"Home", "Tab"}

(***************************************************************************)
(* C11.  The mode changes only from Normal to Insert on i, from Normal to  *)
(* Command on ':' (which activates the prompt), from Insert to Normal on   *)
(* Esc, and from Command to Normal when the prompt deactivates on Enter or *)
(* Esc; each of these keys makes its transition, and no key leads from     *)
(* Insert to Command or from Command to Insert.                            *)
(***************************************************************************)
C11_ModeTransitions ==
    Running =>
        \A k \in KeysTried :
            \E r \in {Press(k, Ed)} :
                ~r.panicked =>
                    /\ r.mode # mode =>
                          \/ mode = "Normal" /\ k = "i" /\ r.mode = "Insert"
                          \/ /\ mode = "Normal" /\ k = ":" /\ r.mode = "Command"
                             /\ r.command_prompt.active
                          \/ mode = "Insert" /\ k = "Esc" /\ r.mode = "Normal"
                          \/ /\ mode = "Command" /\ k \in {"Enter", "Esc"}
                             /\ r.mode = "Normal"
                             /\ command_prompt.active /\ ~r.command_prompt.active
                    /\ (mode = "Normal" /\ k = "i") => r.mode = "Insert"
                    /\ (mode = "Normal" /\ k = ":") =>
                          r.mode = "Command" /\ r.command_prompt.active
                    /\ (mode = "Insert" /\ k = "Esc") => r.mode = "Normal"
                    /\ (mode = "Command" /\ ~r.command_prompt.active /\ ~r.ret) =>
                          r.mode = "Normal"

\* the prompt holds a typed command: Esc and Enter both lead back to Normal,
\* a character leaves the mode alone
C11_Witness ==
    /\ mode = "Command" /\ Running
    /\ command_prompt.active /\ command_prompt.command = <<"q">>
    /\ Press("Esc", Ed).mode = "Normal"
    /\ PressAll(<<"Backspace", "Enter">>, Ed).mode = "Normal"
    /\ Press("Left", Ed).mode = "Command"


(***************************************************************************)
(* C12.  In Normal mode with d pending, a key k other than d cancels the   *)
(* prefix and is handled as a fresh key: it leaves the editor as k leaves  *)
(* it from the same state with no prefix pending, and no prefix is pending *)
(* afterwards.                                                             *)
(***************************************************************************)
C12_PrefixCancelReplaysKey ==
    (mode = "Normal" /\ Running /\ last_key = <<"d">>) =>
        \A k \in KeysTried \ {"d"} :
            \E r \in {Press(k, Ed)} :
                /\ SameOutcome(r, Press(k, [Ed EXCEPT !.last_key = <<>>]))
                /\ ~r.panicked => r.last_key = <<>>

\* d is pending on a line of two characters: l still moves the cursor, i still
\* enters Insert mode
C12_Witness ==
    /\ mode = "Normal" /\ Running /\ last_key = <<"d">>
    /\ cursor.x = 0
    /\ Press("l", Ed).cursor.x = 1
    /\ Press("l", Ed).last_key = <<>>
    /\ Press("i", Ed).mode = "Insert"


(***************************************************************************)
(* C13.  In Normal mode, 0 with no count active moves the cursor to column *)
(* 0 of its row and starts no count, so that a following motion is applied *)
(* once; 0 with a count active multiplies the count by 10 and leaves the   *)
(* cursor.                                                                 *)
(***************************************************************************)
C13_ZeroKey ==
    (mode = "Normal" /\ Running) =>
        \E r \in {Press("0", Ed)} :
            /\ ~r.panicked
            /\ motion_count = <<>> =>
                  /\ r.cursor = [x |-> 0, y |-> cursor.y]
                  /\ r.motion_count = <<>>
                  /\ \A M \in Motions :
                        SameOutcome(Press(M, r),
                                    Press(M, [Ed EXCEPT !.cursor.x = 0, !.last_key = <<>>]))
            /\ motion_count # <<>> =>
                  /\ r.motion_count = <<motion_count[1] * 10>>
                  /\ r.cursor = cursor


(***************************************************************************)
(* C14.  After the viewport adjustment at the start of a render, on a      *)
(* terminal with at least one visible row and one visible column, the      *)
(* cursor lies in the viewport on both axes; a viewport that already held  *)
(* the cursor is unchanged, and otherwise it moved by the least amount     *)
(* that brings the cursor in.  The visible rows and columns are those the  *)
(* render step draws text in: height - 2 rows, and the columns its text    *)
(* loop takes.                                                             *)
(***************************************************************************)
C14_ViewportFollowsCursor ==
    Running =>
        \A term_width \in Widths, term_height \in Heights :
            LET rows == term_height - 2
                cols == term_width - (DecimalLen(line_count(buffer)) + 2)
                Holds(v, c, n) == v <= c /\ c < v + n
                \* the viewport origins that hold the coordinate c
                Least(v, c, n) ==
                    CHOOSE w \in 0..(c + n) :
                        /\ Holds(w, c, n)
                        /\ \A u \in 0..(c + n) :
                              Holds(u, c, n) =>
                                 (IF w > v THEN w - v ELSE v - w)
                                    <= (IF u > v THEN u - v ELSE v - u)
            IN (rows >= 1 /\ cols >= 1) =>
                  \E r \in {adjust_viewport(Ed, term_width, term_height)} :
                      /\ Holds(r.viewport_y, cursor.y, rows)
                      /\ Holds(r.viewport_x, cursor.x, cols)
                      /\ r.viewport_y = Least(viewport_y, cursor.y, rows)
                      /\ r.viewport_x = Least(viewport_x, cursor.x, cols)
                      /\ Holds(viewport_y, cursor.y, rows) => r.viewport_y = viewport_y
                      /\ Holds(viewport_x, cursor.x, cols) => r.viewport_x = viewport_x

\* the adjustment has just run on a terminal of one visible row and brought the
\* viewport down to a cursor on the third row
C14_Witness ==
    /\ op = "adjust_viewport"
    /\ render_buffer.height = 3
    /\ cursor.y = 2
    /\ viewport_y = 2


\* the prompt has just been opened by ':' and holds nothing yet
PromptOpen ==
    Running /\ mode = "Command" /\ command_prompt.active
    /\ command_prompt.command = <<>> /\ command_prompt.cursor_pos = 0

\* the keys that type the command line cmd and confirm it
Typed(cmd) == cmd \o <<"Enter">>

(***************************************************************************)
(* C15.  The command "e <path>" always replaces the buffer and puts the    *)
(* cursor on (0, 0): the new buffer holds the file's content when the file *)
(* can be read, and is empty and named after the path when it cannot; the  *)
(* editor goes on in Normal mode either way.                               *)
(***************************************************************************)
C15_EditReplacesBuffer ==
    PromptOpen =>
        \A path \in {File_f, File_missing} :
            \E r \in {PressAll(Typed(<<"e", " ">> \o path), Ed)} :
                LET contents == read_to_string(files, path)
                IN /\ ~r.panicked
                   /\ ~r.ret
                   /\ r.mode = "Normal"
                   /\ r.cursor = [x |-> 0, y |-> 0]
                   /\ r.buffer = IF contents.tag = "Some"
                                 THEN Buffer_new(file_name_or(path), contents.val)
                                 ELSE Buffer_new(path, <<>>)


\* the final component of a path: what follows its last "/"
RECURSIVE RefFinal(_)
RefFinal(path) ==
    IF \E i \in 1..Len(path) : path[i] = "/"
    THEN RefFinal(Tail(path)) ELSE path

\* the prompt holds a command line, about to be confirmed
PromptHolds == Running /\ mode = "Command" /\ command_prompt.active

(***************************************************************************)
(* C16.  "w" and "write" write the text to the file named by the buffer's  *)
(* name exactly when that name is neither empty nor "Untitled"; "w <path>" *)
(* writes to the path and, when the write succeeds, names the buffer after *)
(* the path's final component; a failed write leaves the name; no save     *)
(* command changes text, line_offsets or cursor.                           *)
(***************************************************************************)
C16_SaveCommands ==
    PromptHolds =>
        \E r \in {Press("Enter", Ed)} :
            LET cmd == command_prompt.command
                name == buffer.buffer_name
                NoArg == cmd \in {<<"w">>, <<"w", "r", "i", "t", "e">>}
                Paths == {p \in DOMAIN files : cmd = <<"w", " ">> \o p}
                Target == IF NoArg
                          THEN IF name # <<>> /\ name # Str_Untitled THEN {name} ELSE {}
                          ELSE Paths
            IN (NoArg \/ Paths # {}) =>
                  /\ ~r.panicked
                  /\ r.buffer.text = buffer.text
                  /\ r.buffer.line_offsets = buffer.line_offsets
                  /\ r.cursor = cursor
                  /\ \A p \in DOMAIN files :
                        r.files[p] = IF p \in Target /\ files[p].writable
                                     THEN [files[p] EXCEPT !.content = Some(buffer.text)]
                                     ELSE files[p]
                  /\ \A p \in Paths :
                        files[p].writable => r.buffer.buffer_name = RefFinal(p)
                  /\ (\A p \in Target : p \in DOMAIN files /\ ~files[p].writable)
                        => r.buffer.buffer_name = name

\* "w d/f" has written the typed text "a" and named the buffer "f"
C16_Witness ==
    /\ op = "keypress" /\ mode = "Normal"
    /\ buffer.text = <<"a">> /\ buffer.buffer_name = <<"f">>
    /\ files[Dir_f].content = Some(<<"a">>)


CmdKeysTried == CmdNormalKeys \cup CmdInsertKeys \cup CmdPromptKeys

Str_q == <<"q">>
Str_quit == <<"q", "u", "i", "t">>

\* a command line that is none of the commands
Unrecognized(cmd) ==
    /\ trim(cmd) \notin {Str_q, Str_quit, <<"w">>, <<"w", "r", "i", "t", "e">>}
    /\ ~starts_with(trim(cmd), <<"w", " ">>)
    /\ ~starts_with(trim(cmd), <<"e", " ">>)

(***************************************************************************)
(* C17.  handle_keypress returns true exactly when, in Command mode, the   *)
(* prompt confirms a command whose trimmed text is "q" or "quit"; every    *)
(* other key and every other confirmed command returns false, and an       *)
(* unrecognized command changes nothing but the return to Normal mode.     *)
(***************************************************************************)
C17_QuitExactly ==
    Running =>
        \A k \in CmdKeysTried :
            \E r \in {Press(k, Ed)} :
                LET confirms == mode = "Command" /\ command_prompt.active /\ k = "Enter"
                    cmd == command_prompt.command
                IN ~r.panicked =>
                      /\ r.ret <=> (confirms /\ trim(cmd) \in {Str_q, Str_quit})
                      /\ (confirms /\ Unrecognized(cmd))
                            => r = [Ed EXCEPT !.mode = "Normal",
                                              !.command_prompt = CommandPrompt_new]


\* how many entries of the sequence s are v
Occurs(s, v) == Cardinality({i \in 1..Len(s) : s[i] = v})

(***************************************************************************)
(* C18.  Enter in Insert mode, the cursor on (r, c) at byte position P,    *)
(* puts '\n' into the text at P, puts the one new offset P + 1 into        *)
(* line_offsets at its sorted place, every offset that was there keeping   *)
(* its value, and moves the cursor to (r + 1, 0).                          *)
(***************************************************************************)
C18_EnterSplits ==
    (Running /\ mode = "Insert") =>
        \E r \in {Press("Enter", Ed)},
           p \in {char_to_byte_position(buffer, cursor.y, cursor.x)} :
            LET P == IF p.tag = "Some" THEN p.val ELSE Len(buffer.text)
                lo == r.buffer.line_offsets
            IN /\ ~r.panicked
               /\ r.buffer.text = InsertAt(buffer.text, P, <<NL>>)
               /\ Len(lo) = Len(buffer.line_offsets) + 1
               /\ \A i \in 1..(Len(lo) - 1) : lo[i] <= lo[i + 1]
               /\ \A i \in 1..Len(lo) :
                     Occurs(lo, lo[i]) = Occurs(buffer.line_offsets, lo[i])
                                         + IF lo[i] = P + 1 THEN 1 ELSE 0
               /\ r.cursor = [x |-> 0, y |-> cursor.y + 1]


\* the index agrees with the text and the cursor is on a character position of
\* one of its lines
CursorInText ==
    /\ IndexConsistent(buffer.text, buffer.line_offsets)
    /\ cursor.y < Len(buffer.line_offsets)
    /\ cursor.x <= Len(RefChars(RefLines(buffer.text, <<>>)[cursor.y + 1]))

(***************************************************************************)
(* C19.  Backspace in Insert mode.  At column 0 of a row r > 0 it removes  *)
(* the '\n' joining lines r-1 and r, removes the offset of line r, takes 1 *)
(* from every later offset and puts the cursor on row r-1 at the column    *)
(* that is the number of characters of the old line r-1.  At column 0 of   *)
(* row 0 it changes nothing.  At a column > 0 it deletes the character     *)
(* before the cursor and moves the cursor one column left.  Stated for the *)
(* states whose index agrees with the text.                                *)
(***************************************************************************)
C19_BackspaceEffect ==
    (Running /\ mode = "Insert" /\ CursorInText) =>
        \E r \in {Press("Backspace", Ed)}, ls \in {RefLines(buffer.text, <<>>)} :
            LET lo == buffer.line_offsets
                row == cursor.y
                start == RefLineStart(ls, row)
                cs == RefChars(ls[row + 1])
            IN /\ ~r.panicked
               /\ (cursor.x = 0 /\ row > 0) =>
                     /\ r.buffer.text = SubSeq(buffer.text, 1, start - 1)
                                           \o SubSeq(buffer.text, start + 1, Len(buffer.text))
                     /\ Len(r.buffer.line_offsets) = Len(lo) - 1
                     /\ \A i \in 1..(Len(lo) - 1) :
                           r.buffer.line_offsets[i] = IF i <= row THEN lo[i] ELSE lo[i + 1] - 1
                     /\ r.cursor = [x |-> Len(RefChars(ls[row])), y |-> row - 1]
               /\ (cursor.x = 0 /\ row = 0) => r = Ed
               /\ cursor.x > 0 =>
                     /\ r.buffer.text =
                           SubSeq(buffer.text, 1, start + RefByteLen(cs, cursor.x - 1))
                           \o SubSeq(buffer.text, start + RefByteLen(cs, cursor.x) + 1,
                                     Len(buffer.text))
                     /\ r.cursor = [x |-> cursor.x - 1, y |-> row]


(***************************************************************************)
(* C20.  x in Normal mode, and Delete in Insert mode, never move the       *)
(* cursor and never fail: they remove the character at the cursor's byte   *)
(* position when there is one, and change neither text nor line_offsets    *)
(* when there is none (empty buffer, cursor at the end of the last line).  *)
(* Stated for the states whose index agrees with the text.                 *)
(***************************************************************************)
C20_DeleteAtCursor ==
    (Running /\ mode \in {"Normal", "Insert"} /\ CursorInText) =>
        \E r \in {Press(IF mode = "Normal" THEN "x" ELSE "Delete", Ed)},
           ls \in {RefLines(buffer.text, <<>>)} :
            LET cs == RefChars(ls[cursor.y + 1])
                P == RefLineStart(ls, cursor.y) + RefByteLen(cs, cursor.x)
                Q == IF P < Len(buffer.text) /\ buffer.text[P + 1] = "E2"
                     THEN P + 3 ELSE P + 1
            IN /\ ~r.panicked
               /\ r.cursor = cursor
               /\ P >= Len(buffer.text) =>
                     /\ r.buffer.text = buffer.text
                     /\ r.buffer.line_offsets = buffer.line_offsets
               /\ P < Len(buffer.text) =>
                     r.buffer.text = SubSeq(buffer.text, 1, P)
                                        \o SubSeq(buffer.text, Q + 1, Len(buffer.text))


\* the first column from x on of the characters cs that holds a character
\* whose being whitespace is ws, or the end of the line
RefSkipTo(cs, x, ws) ==
    CHOOSE i \in x..Len(cs) :
        /\ i = Len(cs) \/ is_whitespace(cs[i + 1]) = ws
        /\ \A j \in x..(i - 1) : is_whitespace(cs[j + 1]) # ws

\* the column of the next word after column x: past the run of non-whitespace
\* at x, then past the run of whitespace that follows
RefNextWord(cs, x) == RefSkipTo(cs, RefSkipTo(cs, x, TRUE), FALSE)

\* Normal mode with no prefix and no count pending, the cursor in the text
PlainNormal ==
    Running /\ mode = "Normal" /\ last_key = <<>> /\ motion_count = <<>>
    /\ CursorInText

(***************************************************************************)
(* C21.  One word-forward step (w).  From a column before the end of the   *)
(* line the cursor skips the rest of the run of non-whitespace it is in,   *)
(* then the run of whitespace that follows, and stops on the first         *)
(* character of the next word, or at the line end when the line has no     *)
(* further word.  From a column at or past the line end, with a next line, *)
(* it goes to column 0 of the next line and makes the same skip there.     *)
(***************************************************************************)
C21_WordForward ==
    PlainNormal =>
        \E r \in {Press("w", Ed)}, ls \in {RefLines(buffer.text, <<>>)} :
            LET cs == RefChars(ls[cursor.y + 1])
            IN /\ cursor.x < Len(cs) =>
                     /\ ~r.panicked
                     /\ r.cursor = [x |-> RefNextWord(cs, cursor.x), y |-> cursor.y]
               /\ (cursor.x >= Len(cs) /\ cursor.y + 1 < Len(ls)) =>
                     /\ ~r.panicked
                     /\ r.cursor = [x |-> RefNextWord(RefChars(ls[cursor.y + 2]), 0),
                                    y |-> cursor.y + 1]


\* the cursor a is not later than the cursor b in (row, column) order
NotLater(a, b) == a.y < b.y \/ (a.y = b.y /\ a.x <= b.x)

(***************************************************************************)
(* C22.  A word-backward step (b), alone or with a repeat count, never     *)
(* moves the cursor to a later position in (row, column) order and never   *)
(* underflows the row or the column: at row 0, column 0 it does nothing,   *)
(* and from a column c > 0 inside a line it stops on the same row at a     *)
(* column <= c.                                                            *)
(***************************************************************************)
C22_WordBackward ==
    PlainNormal =>
        \A ks \in {<<"b">>, <<"2", "b">>} :
            \E r \in {PressAll(ks, Ed)}, ls \in {RefLines(buffer.text, <<>>)} :
                /\ ~r.panicked
                /\ NotLater(r.cursor, cursor)
                /\ cursor = [x |-> 0, y |-> 0] => r.cursor = cursor
                /\ (cursor.x > 0 /\ cursor.x < Len(RefChars(ls[cursor.y + 1])))
                      => r.cursor.y = cursor.y /\ r.cursor.x <= cursor.x


(***************************************************************************)
(* C23.  $ in Normal mode puts the cursor on the column of the last        *)
(* character of its line, (number of characters) - 1, or 0 on an empty     *)
(* line, whatever the line holds, multi-byte characters included; the row  *)
(* stays and a pending count is cleared.                                   *)
(***************************************************************************)
C23_DollarLastColumn ==
    (Running /\ mode = "Normal" /\ last_key = <<>> /\ CursorInText) =>
        \E r \in {Press("$", Ed)}, ls \in {RefLines(buffer.text, <<>>)} :
            LET n == Len(RefChars(ls[cursor.y + 1]))
            IN /\ ~r.panicked
               /\ r.cursor = [x |-> IF n = 0 THEN 0 ELSE n - 1, y |-> cursor.y]
               /\ r.motion_count = <<>>


\* keys that match no arm of the Normal-mode match
UnboundKeys == {"Esc", "Enter", "Left", "Right", "Up", "Down", "Backspace",
                "Delete", "Home", "End", "Tab", "z", "a", " ", "U20AC"}

(***************************************************************************)
(* C24.  In Normal mode with no d prefix pending, a key that matches no    *)
(* Normal-mode command clears the pending count and leaves text,           *)
(* line_offsets, buffer name, cursor, viewport, mode and command prompt    *)
(* as they were.                                                           *)
(***************************************************************************)
C24_UnboundKeyClearsCount ==
    (Running /\ mode = "Normal" /\ last_key = <<>>) =>
        \A k \in UnboundKeys :
            \E r \in {Press(k, Ed)} : r = [Ed EXCEPT !.motion_count = <<>>]

\* a count is pending over a text, and Escape clears it
C24_Witness ==
    /\ Running /\ mode = "Normal" /\ last_key = <<>>
    /\ motion_count = <<2>> /\ buffer.text # <<>>
    /\ Press("Esc", Ed).motion_count = <<>>


\* the grid rb, as the terminal would show it
Shown(rb) ==
    [y \in 1..rb.height |-> [x \in 1..rb.width |->
        [ch |-> rb.buffer[y][x].ch, fg |-> rb.buffer[y][x].fg, bg |-> rb.buffer[y][x].bg]]]

\* the number of columns left of the text: the digits of the highest line
\* number and one separator column
GutterWidth == DecimalLen(line_count(buffer)) + 1

(***************************************************************************)
(* C25.  The number of buffer columns the render step treats as visible,   *)
(* for drawing a row's text and for scrolling, is the terminal width minus *)
(* the gutter width, the gutter being the digits of the highest line       *)
(* number and exactly one separator column.  After a render, every         *)
(* character of a visible line that falls in these columns is on the grid. *)
(***************************************************************************)
C25_VisibleColumns ==
    (op = "render" /\ ~panicked /\ IndexConsistent(buffer.text, buffer.line_offsets)) =>
        /\ visible_cols(buffer, RenderWidth) = RenderWidth - GutterWidth
        /\ \E ls \in {RefLines(buffer.text, <<>>)} :
              \A render_y \in 0..(RenderHeight - 3), i \in 0..(RenderWidth - GutterWidth - 1) :
                  (/\ viewport_y + render_y < Len(ls)
                   /\ ~(command_prompt.active /\ render_y = 0)
                   /\ viewport_x + i < Len(RefChars(ls[viewport_y + render_y + 1])))
                  => prev_render_buffer.buffer[render_y + 1][GutterWidth + i + 1].ch
                        = RefChars(ls[viewport_y + render_y + 1])[viewport_x + i + 1]


(***************************************************************************)
(* C26.  Whenever the command prompt is active, every cell of row 0 of the *)
(* grid the build produced is an overlay cell: the prompt cursor, a        *)
(* character of the prompt text, or the prompt background.  No gutter,     *)
(* text, buffer-cursor or status cell drawn earlier in the build is left   *)
(* at any column of row 0.                                                 *)
(***************************************************************************)
C26_OverlayOwnsRowZero ==
    (op = "render" /\ ~panicked /\ command_prompt.active) =>
        LET width == prev_render_buffer.width
            prompt == <<"~", " ">> \o RefChars(command_prompt.command)
            bytes == 2 + Len(command_prompt.command)
            left == IF bytes > width THEN 0 ELSE (width - bytes) \div 2
            at == left + 2 + command_prompt.cursor_pos
        IN \A x \in 0..(width - 1) :
              prev_render_buffer.buffer[1][x + 1] =
                 IF x = at THEN Cell(" ", "Black", "White")
                 ELSE IF left <= x /\ x < left + Len(prompt)
                      THEN Cell(prompt[x - left + 1], "Black", "DarkBlue")
                      ELSE Cell(" ", "Reset", "DarkBlue")

\* a render with the prompt open over a buffer with text: column 0 of row 0,
\* where the line number was drawn, shows the prompt background
C26_Witness ==
    /\ op = "render" /\ ~panicked /\ command_prompt.active
    /\ command_prompt.command = <<>> /\ buffer.text # <<>>
    /\ prev_render_buffer.buffer[1][1] = Cell(" ", "Reset", "DarkBlue")
    /\ prev_render_buffer.buffer[1][2] = Cell("~", "Black", "DarkBlue")


\* the grid a full redraw of the current editor builds from blank grids
FreshGrid ==
    prepare_render_buffer(Ed, RenderBuffer_new(RenderWidth, RenderHeight),
                          RenderBuffer_new(RenderWidth, RenderHeight),
                          RenderWidth, RenderHeight).render_buffer

(***************************************************************************)
(* C27.  On a terminal of fixed size that starts blank, in the main loop's *)
(* interleaving of renders and keypresses, the screen that only the        *)
(* changed-cell writes were applied to shows, after every render and at    *)
(* every coordinate, the grid freshly built for that frame; and the        *)
(* previous grid is always what is on the screen.                          *)
(***************************************************************************)
C27_IncrementalEqualsFull ==
    /\ screen = Shown(prev_render_buffer)
    /\ (op = "render" /\ ~panicked) => screen = Shown(FreshGrid)

\* a render after the key a was typed that wrote some cells, and not all of them
C27_Witness ==
    /\ op = "render" /\ ~panicked /\ mode = "Insert" /\ buffer.text = <<"a">>
    /\ writes # <<>> /\ Len(writes) < RenderWidth * RenderHeight
    /\ screen # Screen_new(RenderWidth, RenderHeight)


(***************************************************************************)
(* C28.  In every state reached after a handle_keypress that returned      *)
(* false, the mode is Command if and only if the command prompt is active  *)
(* (so keys go to the prompt only while it is active), and ':' opens the   *)
(* prompt with an empty command and the prompt cursor at 0.                *)
(***************************************************************************)
C28_CommandIffPromptActive ==
    Running =>
        /\ mode = "Command" <=> command_prompt.active
        /\ mode = "Normal" =>
              \E r \in {Press(":", Ed)} :
                 /\ ~r.panicked /\ ~r.ret
                 /\ r.mode = "Command"
                 /\ r.command_prompt = [command |-> <<>>, cursor_pos |-> 0,
                                        active |-> TRUE]

\* a cancelled prompt left its command behind, and ':' opens an empty prompt
C28_Witness ==
    /\ Running /\ op = "keypress" /\ mode = "Normal"
    /\ command_prompt = [command |-> <<"w">>, cursor_pos |-> 1, active |-> FALSE]
    /\ Press(":", Ed).command_prompt.command = <<>>


(***************************************************************************)
(* C29.  In every state reached by keypresses the buffer has at least one  *)
(* line and the cursor row is the index of one of its lines:               *)
(* line_count() >= 1 and cursor.y < line_count().                          *)
(***************************************************************************)
C29_CursorRowValid ==
    ~panicked => line_count(buffer) >= 1 /\ cursor.y < line_count(buffer)


\* the cursor is at the end of the last line of the text
AtEndOfText ==
    \E ls \in {RefLines(buffer.text, <<>>)} :
        cursor.y = Len(ls) - 1 /\ cursor.x = Len(RefChars(ls[Len(ls)]))

(***************************************************************************)
(* C30.  Word-forward makes progress: from a cursor position that is not   *)
(* the end of the last line, one w moves the cursor to a strictly later    *)
(* position in (row, column) order (so that repeated w reach the end of    *)
(* the last line of a finite buffer).                                      *)
(***************************************************************************)
C30_WordForwardProgress ==
    (PlainNormal /\ ~AtEndOfText) =>
        \E r \in {Press("w", Ed)} :
            /\ ~r.panicked
            /\ ~NotLater(r.cursor, cursor)


(***************************************************************************)
(* C31.  The render step completes for every terminal size, heights below  *)
(* 2 and widths narrower than the gutter included: no row or column        *)
(* arithmetic goes below zero, no access is out of range, and a cell write *)
(* outside the grid is dropped, the grid keeping the size of the terminal. *)
(* Stated for the states whose index agrees with the text.                 *)
(***************************************************************************)
C31_RenderAnySize ==
    (Running /\ CursorInText) =>
        \A term_width \in 0..RenderWidth, term_height \in 0..RenderHeight :
            \E r \in {prepare_render_buffer(Ed, render_buffer, prev_render_buffer,
                                            term_width, term_height)} :
                /\ ~r.panicked
                /\ r.render_buffer.width = term_width
                /\ r.render_buffer.height = term_height
                /\ Len(r.render_buffer.buffer) = term_height
                /\ \A y \in 1..term_height : Len(r.render_buffer.buffer[y]) = term_width

====
